---- MODULE Spec2Model ----
(***************************************************************************)
(* Isomira: the convergence controller (run), its DK amendment, and the    *)
(* helpers they use.  Texts are TLA+ strings; a position is a 0-based      *)
(* offset as in the Python source, so t[:k] is SubSeq(t, 1, k) and t[k:]   *)
(* is SubSeq(t, k + 1, Len(t)).                                            *)
(***************************************************************************)
EXTENDS Integers, Sequences, FiniteSets, TLC

VARIABLES
    pc,                 \* position of run(): the phase about to execute, or a terminal state
    exit_code,          \* process exit code once the run has ended, -1 while it runs
    iteration,
    task,               \* in-memory task text
    task_file,          \* content of task.md on disk
    task_at_start,      \* the task text read at startup (history, never written by the code)
    plan,
    test_filename,
    test_content,       \* the test text in memory
    test_file,          \* the text of the test file on disk, workspace / test_filename
    original_test_count,
    last_test_hash,
    stuck_count,
    last_failing_set,
    failing_set_count,
    effective_stuck,
    last_impl_hash,
    impl_stable_count,
    last_diagnosis,
    last_review_code,
    test_result,
    prompt,             \* what the last prompt assembly was given (sys_prompt, usr_prompt)
    file_blocks,
    cmd_blocks,
    plan_reply,         \* the plan / re-plan reply last received, as parse_json_output saw it
    dk_reply,           \* the DK-ping reply last received
    dk_cap,             \* TASK_SIZE_CAP computed by the last DK ping
    review_reply,       \* the audit / review reply received in this iteration, as parse_json_output saw it
    last_call,          \* the last call_model call: its phase, model and profile
    trace,              \* external operations of the current iteration, emptied when the loop continues
    args,               \* input of the pure function under check (function specifications)
    ret                 \* its result

ctl_vars == <<pc, exit_code, iteration, task, task_file, task_at_start, plan,
              test_filename, test_content, test_file, original_test_count, last_test_hash,
              stuck_count, last_failing_set, failing_set_count, effective_stuck,
              last_impl_hash, impl_stable_count, last_diagnosis, last_review_code,
              test_result, prompt, file_blocks, cmd_blocks, plan_reply, dk_reply,
              dk_cap, review_reply, last_call, trace>>

vars == <<ctl_vars, args, ret>>

None == "None"

\* an optional value (Python None or a value): <<>> or <<v>>
NoValue == <<>>

Some(v) == <<v>>

(***************************************************************************)
(* Text helpers (Python str and re semantics on the model's alphabet)      *)
(***************************************************************************)

Min(S) == CHOOSE x \in S : \A y \in S : x <= y

Max(S) == CHOOSE x \in S : \A y \in S : x >= y

\* t[i] for a 0-based offset i
CharAt(t, i) == SubSeq(t, i + 1, i + 1)

\* str.isspace() for one character
IsSpace(c) == c \in {" ", "\t", "\n", "\r", "\f"}

\* t[k:]
From(t, k) == SubSeq(t, k + 1, Len(t))

\* t[:k]
Upto(t, k) == SubSeq(t, 1, k)

\* t.startswith(lit, k)
MatchAt(t, k, lit) == /\ k + Len(lit) <= Len(t)
                      /\ SubSeq(t, k + 1, k + Len(lit)) = lit

\* t.find(lit): offset of the leftmost occurrence, -1 when there is none
Find(t, lit) ==
    LET hits == {k \in 0..(Len(t) - Len(lit)) : MatchAt(t, k, lit)}
    IN  IF hits = {} THEN -1 ELSE Min(hits)

\* lit in t
Contains(t, lit) == Find(t, lit) >= 0

\* t.rstrip()
RStrip(t) ==
    LET keep == {k \in 1..Len(t) : ~IsSpace(CharAt(t, k - 1))}
    IN  IF keep = {} THEN "" ELSE Upto(t, Max(keep))

\* t.lstrip()
LStrip(t) ==
    LET keep == {k \in 0..(Len(t) - 1) : ~IsSpace(CharAt(t, k))}
    IN  IF keep = {} THEN "" ELSE From(t, Min(keep))

\* t.strip()
Strip(t) == LStrip(RStrip(t))

\* end offset of the maximal whitespace run starting at offset k
SpaceRunEnd(t, k) ==
    Min({j \in k..Len(t) : j = Len(t) \/ ~IsSpace(CharAt(t, j))})

RECURSIVE Repeat(_, _)
Repeat(s, n) == IF n = 0 THEN "" ELSE s \o Repeat(s, n - 1)

(***************************************************************************)
(* DK amendment                                                            *)
(***************************************************************************)

DK_PING_THRESHOLD == 5

STUCK_THRESHOLD == 3

DK_ADDITION_MAX == 500

TASK_SIZE_SLACK == 2000

DkHeading == "## Domain Knowledge"

\* re.search(r"(## Domain Knowledge\s*\n)", t): the match's [start, end), or
\* <<-1, -1>>.  \s* is greedy, so the match ends after the last newline of the
\* whitespace run that follows the heading text.
DkSectionMatch(t) ==
    LET NlEnds(k) == {j \in (k + Len(DkHeading) + 1)..SpaceRunEnd(t, k + Len(DkHeading)) :
                         CharAt(t, j - 1) = "\n"}
        starts == {k \in 0..(Len(t) - Len(DkHeading)) :
                     MatchAt(t, k, DkHeading) /\ NlEnds(k) # {}}
    IN  IF starts = {} THEN <<-1, -1>>
        ELSE <<Min(starts), Max(NlEnds(Min(starts)))>>

\* the offset at which the amendment line is inserted (dk_end)
DkEnd(t) ==
    LET insert_pos == DkSectionMatch(t)[2]
        next_section == Find(From(t, insert_pos), "\n## ")
    IN  IF next_section >= 0 THEN insert_pos + next_section ELSE Len(t)

\* variant of DkTag: every tag carries the iteration of the first ping
DkTagOfFirstPing(n) == "[Auto-DK iteration 5] "

\* variant of DkTag: the tag names the iteration after the ping
DkTagNextIteration(n) == "[Auto-DK iteration " \o ToString(n + 1) \o "] "

\* f"[Auto-DK iteration {iteration}] "
DkTag(n) == "[Auto-DK iteration " \o ToString(n) \o "] "

\* variant of ProposedTask: the text after the insertion point is lost
ProposedTaskDroppingRest(current_task, n, dk_addition) ==
    RStrip(Upto(current_task, DkEnd(current_task))) \o "\n\n" \o DkTag(n) \o dk_addition \o "\n"

\* proposed_task of an accepted reply
ProposedTask(current_task, n, dk_addition) ==
    IF DkSectionMatch(current_task)[1] >= 0
    THEN RStrip(Upto(current_task, DkEnd(current_task)))
            \o "\n\n" \o DkTag(n) \o dk_addition \o "\n"
            \o From(current_task, DkEnd(current_task))
    ELSE current_task \o "\n\n## Domain Knowledge\n\n" \o DkTag(n) \o dk_addition \o "\n"

\* dict.get(key, default) on a parsed JSON object
Get(d, key, default) == IF key \in DOMAIN d THEN d[key] ELSE default

\* the addition as inserted: stripped, then cut to 500 characters
DkAdditionText(dk_addition) ==
    LET s == Strip(dk_addition)
    IN  IF Len(s) > DK_ADDITION_MAX THEN Upto(s, DK_ADDITION_MAX) ELSE s

\* variant of DkAccepts: the confidence is not looked at
DkAcceptsAnyConfidence(data) == Get(data, "dk_addition", "") # ""

\* `if dk_addition and dk_confidence in ("high", "medium")`
DkAccepts(data) ==
    /\ Get(data, "dk_addition", "") # ""
    /\ Get(data, "confidence", "low") \in {"high", "medium"}

TaskSizeCap(current_task) == Len(current_task) + TASK_SIZE_SLACK

\* What one DK ping decides for a consultant reply: the state the run moves to
\* and the task text it leaves on disk and in memory.
DkOutcome(reply, current_task, n) ==
    IF ~reply.parse_ok
    THEN [to |-> "HALT_DK_UNPARSEABLE", task |-> current_task]
    ELSE IF ~DkAccepts(reply.data)
    THEN [to |-> "HALT_DK_LOW_CONFIDENCE", task |-> current_task]
    ELSE LET proposed == ProposedTask(current_task, n,
                             DkAdditionText(Get(reply.data, "dk_addition", "")))
         IN  IF Len(proposed) > TaskSizeCap(current_task)
             THEN [to |-> "HALT_DK_SIZE_CAP", task |-> current_task]
             ELSE [to |-> "replan", task |-> proposed]

(***************************************************************************)
(* Output parsers                                                          *)
(*                                                                         *)
(* A model reply is [parse_ok, data]: parse_ok is whether parse_json_output *)
(* returned, data the JSON object it returned, as a function from keys.    *)
(* A plan entry, whose key order the normaliser depends on, is a sequence  *)
(* of <<key, type, value>> items in insertion order; type is the JSON type *)
(* of the value ("str", "list", "num") and value its text.                 *)
(***************************************************************************)

NoData == <<>>

Unparseable == [parse_ok |-> FALSE, data |-> NoData]

Parsed(d) == [parse_ok |-> TRUE, data |-> d]

\* variant of count_test_functions: a line that holds a second `def ` is not
\* counted
count_test_functions_single_def(content) ==
    Cardinality({k \in 0..(Len(content) - 1) :
                    /\ MatchAt(content, k, "def test_")
                    /\ (k = 0 \/ CharAt(content, k - 1) = "\n")
                    /\ LET rest == From(content, k + 4)
                           eol == IF Find(rest, "\n") < 0 THEN Len(rest) ELSE Find(rest, "\n")
                       IN  Find(Upto(rest, eol), "def ") < 0})

\* len(re.findall(r"^def test_", content, re.MULTILINE))
count_test_functions(content) ==
    Cardinality({k \in 0..(Len(content) - 1) :
                    /\ MatchAt(content, k, "def test_")
                    /\ (k = 0 \/ CharAt(content, k - 1) = "\n")})

WordChars ==
    {"a","b","c","d","e","f","g","h","i","j","k","l","m","n","o","p","q","r","s",
     "t","u","v","w","x","y","z","A","B","C","D","E","F","G","H","I","J","K","L",
     "M","N","O","P","Q","R","S","T","U","V","W","X","Y","Z","0","1","2","3","4",
     "5","6","7","8","9","_"}

\* PY_FILE_RE.search(v): the text matched by [\w/\\.\-]+\.py\b, or None
PyFileSearch(v) ==
    LET InClass(c) == c \in WordChars \cup {"/", "\\", ".", "-"}
        Ok(i, j) == /\ i + 4 <= j
                    /\ SubSeq(v, j - 2, j) = ".py"
                    /\ \A k \in i..(j - 4) : InClass(CharAt(v, k))
                    /\ (j = Len(v) \/ CharAt(v, j) \notin WordChars)
        starts == {i \in 0..(Len(v) - 1) : \E j \in 1..Len(v) : Ok(i, j)}
    IN  IF starts = {} THEN None
        ELSE LET i0 == Min(starts)
             IN  SubSeq(v, i0 + 1, Max({j \in 1..Len(v) : Ok(i0, j)}))

DictHas(d, k) == \E i \in 1..Len(d) : d[i][1] = k

DictItem(d, k) == d[CHOOSE i \in 1..Len(d) : d[i][1] = k]

DictPop(d, k) == SelectSeq(d, LAMBDA e : e[1] # k)

DictSet(d, k, ty, v) ==
    IF DictHas(d, k)
    THEN [i \in 1..Len(d) |-> IF d[i][1] = k THEN <<k, ty, v>> ELSE d[i]]
    ELSE Append(d, <<k, ty, v>>)

\* the element of seq at the least index in hits, as a one-element sequence,
\* or <<>>: the element at which a `for` loop over seq breaks
FirstAt(seq, hits) == IF hits = {} THEN <<>> ELSE <<seq[Min(hits)]>>

FILE_KEYS == <<"file", "filename", "filepath", "path", "file_path",
               "target", "source", "module", "target_file", "source_file">>

ACTION_KEYS == <<"action", "operation", "type", "mode">>

FilePrefixes == <<"workspace/", "workspace\\", "./", ".\\">>

RECURSIVE StripPrefixes(_, _)
\* for prefix in (...): if f.startswith(prefix): f = f[len(prefix):]
StripPrefixes(f, i) ==
    IF i > Len(FilePrefixes) THEN f
    ELSE StripPrefixes(IF MatchAt(f, 0, FilePrefixes[i])
                       THEN From(f, Len(FilePrefixes[i])) ELSE f, i + 1)

\* no "file" key: the first FILE_KEYS key holding a string with a "." is renamed
RenameFileKey(entry) ==
    LET IsFileKey(k) == /\ DictHas(entry, k)
                        /\ DictItem(entry, k)[2] = "str"
                        /\ Contains(DictItem(entry, k)[3], ".")
        byKey == FirstAt(FILE_KEYS, {i \in 1..Len(FILE_KEYS) : IsFileKey(FILE_KEYS[i])})
    IN  IF ~DictHas(entry, "file") /\ byKey # <<>>
        THEN DictSet(DictPop(entry, byKey[1]), "file", "str", DictItem(entry, byKey[1])[3])
        ELSE entry

\* still no "file" key: the first string value holding a .py path gives it
ScanForFile(entry) ==
    LET HasPy(e) == e[2] = "str" /\ PyFileSearch(e[3]) # None
        byScan == FirstAt(entry, {i \in 1..Len(entry) : HasPy(entry[i])})
    IN  IF ~DictHas(entry, "file") /\ byScan # <<>>
        THEN DictSet(entry, "file", "str", PyFileSearch(byScan[1][3]))
        ELSE entry

\* still no "file" key: the fallback file, when there is one
UseFallback(entry, fallback_file) ==
    IF ~DictHas(entry, "file") /\ fallback_file # ""
    THEN DictSet(entry, "file", "str", fallback_file)
    ELSE entry

\* no "action" key: the first ACTION_KEYS key is renamed, else "modify"
RenameActionKey(entry) ==
    LET IsActionKey(k) == DictHas(entry, k)
        byAction == FirstAt(ACTION_KEYS, {i \in 1..Len(ACTION_KEYS) : IsActionKey(ACTION_KEYS[i])})
    IN  IF DictHas(entry, "action") THEN entry
        ELSE IF byAction # <<>>
        THEN DictSet(DictPop(entry, byAction[1]), "action",
                     DictItem(entry, byAction[1])[2], DictItem(entry, byAction[1])[3])
        ELSE DictSet(entry, "action", "str", "modify")

\* the "file" value loses the leading workspace prefixes (the value is a
\* string in every plan considered: f.startswith raises on any other value)
StripFilePrefix(entry) ==
    IF DictHas(entry, "file")
    THEN DictSet(entry, "file", DictItem(entry, "file")[2],
                 StripPrefixes(DictItem(entry, "file")[3], 1))
    ELSE entry

\* entry.setdefault("functions", [])
DefaultFunctions(entry) ==
    IF DictHas(entry, "functions") THEN entry ELSE DictSet(entry, "functions", "list", "[]")

\* one dict entry through the body of normalize_plan's loop
NormalizeEntry(entry, fallback_file) ==
    DefaultFunctions(StripFilePrefix(RenameActionKey(
        UseFallback(ScanForFile(RenameFileKey(entry)), fallback_file))))

RECURSIVE normalize_plan(_, _)
\* raw entries are [kind, items, text]: a dict (items), a string (text) or
\* any other JSON value
normalize_plan(raw, fallback_file) ==
    IF raw = <<>> THEN <<>>
    ELSE LET e == Head(raw)
             d == IF e.kind = "dict" THEN e.items
                  ELSE <<<<"file", "str", PyFileSearch(e.text)>>>>
             skip == \/ e.kind \notin {"dict", "str"}
                     \/ (e.kind = "str" /\ PyFileSearch(e.text) = None)
             out == NormalizeEntry(d, fallback_file)
         IN  (IF ~skip /\ DictHas(out, "file") THEN <<out>> ELSE <<>>)
                \o normalize_plan(Tail(raw), fallback_file)

RECURSIVE JoinTexts(_, _)
JoinTexts(seq, sep) ==
    IF seq = <<>> THEN ""
    ELSE IF Len(seq) = 1 THEN seq[1]
    ELSE seq[1] \o sep \o JoinTexts(Tail(seq), sep)

RECURSIVE ReviewCorrections(_)
ReviewCorrections(entries) ==
    IF entries = <<>> THEN <<>>
    ELSE LET e == Head(entries)
             Str(k, default) == IF DictHas(e.items, k) THEN DictItem(e.items, k)[3]
                                ELSE default
             code == Str("code", "")
             desc == Str("description", Str("rationale", Str("reason", Str("action", ""))))
             header == IF desc # "" THEN "# Fix: " \o desc ELSE "# Correction from review"
         IN  (IF e.kind = "dict" /\ code # "" /\ Len(Strip(code)) > 10
              THEN <<header \o "\n" \o Strip(code)>> ELSE <<>>)
                \o ReviewCorrections(Tail(entries))

\* extract_review_code(review_data); a "plan" that is no list is ""
extract_review_code(review_data) ==
    JoinTexts(ReviewCorrections(Get(review_data, "plan", <<>>)), "\n\n")

\* ===\s*\n from offset k: the offset after the last newline of the whitespace
\* run that starts at k, or -1 when the run holds no newline
AfterLastNewline(t, k) ==
    LET newlines == {j \in k..(SpaceRunEnd(t, Min({k, Len(t)})) - 1) : CharAt(t, j) = "\n"}
    IN  IF newlines = {} THEN -1 ELSE Max(newlines) + 1

\* (.+?)===\s*\n with the group starting at offset g: the offset where the
\* group ends, or -1
PathEndFrom(t, g) ==
    LET ends == {e \in (g + 1)..(Len(t) - 3) :
                    /\ MatchAt(t, e, "===")
                    /\ AfterLastNewline(t, e + 3) >= 0
                    /\ \A j \in g..(e - 1) : CharAt(t, j) # "\n"}
    IN  IF ends = {} THEN -1 ELSE Min(ends)

\* ===FILE:\s*(.+?) at offset i: the offset where the group starts (\s* gives
\* back what the group needs), or -1
PathStartAt(t, i) ==
    LET starts == {g \in (i + 8)..SpaceRunEnd(t, i + 8) : PathEndFrom(t, g) >= 0}
    IN  IF MatchAt(t, i, "===FILE:") /\ starts # {} THEN Max(starts) ELSE -1

\* the block whose path group is t[g:e] and whose content starts at offset c,
\* with the offset where the match ends; no value without a terminator
FileBlockOf(t, g, e, c) ==
    IF Find(From(t, c), "===END FILE===") < 0 THEN NoValue
    ELSE Some([path |-> Strip(SubSeq(t, g + 1, e)),
               content |-> SubSeq(t, c + 1, c + Find(From(t, c), "===END FILE===")),
               end |-> c + Find(From(t, c), "===END FILE===") + 14])

\* the match of the pattern at offset i, or no value
FileBlockAt(t, i) ==
    IF PathStartAt(t, i) < 0 THEN NoValue
    ELSE FileBlockOf(t, PathStartAt(t, i), PathEndFrom(t, PathStartAt(t, i)),
                     AfterLastNewline(t, PathEndFrom(t, PathStartAt(t, i)) + 3))

RECURSIVE FileBlocksFrom(_, _)
\* the blocks re.finditer finds from offset k on
FileBlocksFrom(t, k) ==
    IF Find(From(t, k), "===FILE:") < 0 THEN <<>>
    ELSE IF FileBlockAt(t, k + Find(From(t, k), "===FILE:")) = NoValue
    THEN FileBlocksFrom(t, k + Find(From(t, k), "===FILE:") + 1)
    ELSE <<[path |-> FileBlockAt(t, k + Find(From(t, k), "===FILE:"))[1].path,
            content |-> FileBlockAt(t, k + Find(From(t, k), "===FILE:"))[1].content]>>
             \o FileBlocksFrom(t, FileBlockAt(t, k + Find(From(t, k), "===FILE:"))[1].end)

parse_file_blocks(text) == FileBlocksFrom(text, 0)

(***************************************************************************)
(* Stall signals of a failing test output (run, PHASE 4)                   *)
(***************************************************************************)

RECURSIVE SplitLines(_)
\* t.split("\n")
SplitLines(t) ==
    IF Find(t, "\n") < 0 THEN <<t>>
    ELSE <<Upto(t, Find(t, "\n"))>> \o SplitLines(From(t, Find(t, "\n") + 1))

\* s.split()[0]
FirstToken(s) ==
    LET l == LStrip(s)
    IN  Upto(l, Min({j \in 0..Len(l) : j = Len(l) \/ IsSpace(CharAt(l, j))}))

\* line.strip().split("::")[-1].split()[0]
FailingName(line) ==
    LET l == Strip(line)
        last == Max({k \in 0..(Len(l) - 2) : MatchAt(l, k, "::")})
    IN  FirstToken(From(l, last + 2))

RECURSIVE PfPattern(_)
PfPattern(lines) ==
    IF lines = <<>> THEN ""
    ELSE (IF Contains(Head(lines), "PASSED") THEN "P"
          ELSE IF Contains(Head(lines), "FAILED") /\ Contains(Head(lines), "::") THEN "F"
          ELSE "") \o PfPattern(Tail(lines))

\* frozenset(current_failing)
FailingSet(lines) ==
    {FailingName(lines[i]) : i \in {j \in 1..Len(lines) :
        /\ ~Contains(lines[j], "PASSED")
        /\ Contains(lines[j], "FAILED")
        /\ Contains(lines[j], "::")}}

\* hashlib.md5(text).hexdigest(), taken to be collision-free
Md5(text) == <<"md5", text>>

TestHash(output) == Md5(PfPattern(SplitLines(output)))

\* variant of NextStuckCount: a new pattern starts the count at 0
NextStuckCountFromZero(output) ==
    IF Some(TestHash(output)) = last_test_hash THEN stuck_count + 1 ELSE 0

\* stuck_count after a failing run
NextStuckCount(output) ==
    IF Some(TestHash(output)) = last_test_hash THEN stuck_count + 1 ELSE 1

\* variant of NextFailingSetCount: a new pass/fail pattern also restarts the
\* failing-set count
NextFailingSetCountTiedToPattern(output) ==
    IF /\ Some(FailingSet(SplitLines(output))) = last_failing_set
       /\ Some(TestHash(output)) = last_test_hash
    THEN failing_set_count + 1 ELSE 1

\* failing_set_count after a failing run
NextFailingSetCount(output) ==
    IF Some(FailingSet(SplitLines(output))) = last_failing_set
    THEN failing_set_count + 1 ELSE 1

EffectiveStuck(sc, fc) == IF sc >= fc THEN sc ELSE fc

\* variant of DkPingDue: the ping waits for one more stalled iteration
DkPingDueLate(eff) == eff > DK_PING_THRESHOLD

\* `if effective_stuck >= DK_PING_THRESHOLD`
DkPingDue(eff) == eff >= DK_PING_THRESHOLD

\* variant of AfterTest: a passing run does not end the loop
AfterTestNoBreak(passed, eff) == IF DkPingDue(eff) THEN "dk_ping" ELSE "audit"

\* variant of AfterTest: a failing run goes to the audit even when the ping is due
AfterTestNeverPings(passed, eff) == IF passed THEN "SUCCESS" ELSE "audit"

\* where run() goes after run_tests returned
AfterTest(passed, eff) ==
    IF passed THEN "SUCCESS"
    ELSE IF DkPingDue(eff) THEN "dk_ping"
    ELSE "audit"

(***************************************************************************)
(* The sandbox: sandbox_check and execute_command                          *)
(* Commands are single lines, as parse_cmd_blocks strips them.             *)
(***************************************************************************)

\* t[i], or "" when i is outside the text
At(t, i) == IF i < 0 \/ i >= Len(t) THEN "" ELSE CharAt(t, i)

\* \w for one character
IsWordChar(c) == c \in WordChars

\* \b at offset k
WordBoundary(t, k) == IsWordChar(At(t, k - 1)) # IsWordChar(At(t, k))

\* end offset of the maximal run of non-whitespace starting at offset k: (\S+)
NonSpaceRunEnd(t, k) ==
    Min({j \in k..Len(t) : j = Len(t) \/ IsSpace(CharAt(t, j))})

RECURSIVE SplitWords(_)
\* t.split()
SplitWords(t) ==
    LET u == LStrip(t)
    IN  IF u = "" THEN <<>>
        ELSE <<Upto(u, NonSpaceRunEnd(u, 0))>> \o SplitWords(From(u, NonSpaceRunEnd(u, 0)))

SUDO_ALLOWLIST ==
    {"apt", "apt-get", "dpkg", "systemctl", "service", "kill", "killall", "pkill",
     "lsof", "fuser", "ufw", "netstat", "ss"}

\* ', '.join(sorted(SUDO_ALLOWLIST))
SortedAllowlist ==
    "apt, apt-get, dpkg, fuser, kill, killall, lsof, netstat, pkill, service, ss, systemctl, ufw"

\* the foreground patterns in list order: re is the pattern's source text;
\* words are its literals, the first after \b, the last before \b, joined by
\* \s+, or by \s+.* where any is set
FOREGROUND_PATTERNS ==
    << [re |-> "\\btail\\s+-f\\b", words |-> <<"tail", "-f">>, any |-> FALSE],
       [re |-> "\\bwatch\\b", words |-> <<"watch">>, any |-> FALSE],
       [re |-> "\\bpython\\s+-m\\s+http\\.server\\b",
        words |-> <<"python", "-m", "http.server">>, any |-> FALSE],
       [re |-> "\\bnpm\\s+run\\s+dev\\b", words |-> <<"npm", "run", "dev">>, any |-> FALSE],
       [re |-> "\\bnpm\\s+start\\b", words |-> <<"npm", "start">>, any |-> FALSE],
       [re |-> "\\bnode\\s+.*--watch\\b", words |-> <<"node", "--watch">>, any |-> TRUE],
       [re |-> "\\bflask\\s+run\\b", words |-> <<"flask", "run">>, any |-> FALSE],
       [re |-> "\\buvicorn\\b", words |-> <<"uvicorn">>, any |-> FALSE],
       [re |-> "\\bgunicorn\\b", words |-> <<"gunicorn">>, any |-> FALSE],
       [re |-> "\\bjupyter\\b", words |-> <<"jupyter">>, any |-> FALSE],
       [re |-> "\\bless\\b", words |-> <<"less">>, any |-> FALSE],
       [re |-> "\\bmore\\b", words |-> <<"more">>, any |-> FALSE],
       [re |-> "\\bvi\\b", words |-> <<"vi">>, any |-> FALSE],
       [re |-> "\\bvim\\b", words |-> <<"vim">>, any |-> FALSE],
       [re |-> "\\bnano\\b", words |-> <<"nano">>, any |-> FALSE],
       [re |-> "\\btop\\b", words |-> <<"top">>, any |-> FALSE],
       [re |-> "\\bhtop\\b", words |-> <<"htop">>, any |-> FALSE] >>

RECURSIVE WordsMatchFrom(_, _, _, _)
\* the words from the i-th on match at offset k, each after \s+, then \b
WordsMatchFrom(t, k, words, i) ==
    IF i > Len(words) THEN WordBoundary(t, k)
    ELSE /\ SpaceRunEnd(t, k) > k
         /\ MatchAt(t, SpaceRunEnd(t, k), words[i])
         /\ WordsMatchFrom(t, SpaceRunEnd(t, k) + Len(words[i]), words, i + 1)

\* \s+.*<word>\b matches from offset k: whitespace up to some s, no newline
\* from s to the word at j
AnyThenWordFrom(t, k, word) ==
    \E j \in (k + 1)..(Len(t) - Len(word)) :
        /\ MatchAt(t, j, word)
        /\ WordBoundary(t, j + Len(word))
        /\ \E s \in (k + 1)..j :
               /\ \A i \in k..(s - 1) : IsSpace(CharAt(t, i))
               /\ \A i \in s..(j - 1) : CharAt(t, i) # "\n"

\* re.search(pattern, t)
ForegroundSearch(p, t) ==
    \E k \in 0..(Len(t) - 1) :
        /\ WordBoundary(t, k)
        /\ MatchAt(t, k, p.words[1])
        /\ IF p.any THEN AnyThenWordFrom(t, k + Len(p.words[1]), p.words[2])
           ELSE WordsMatchFrom(t, k + Len(p.words[1]), p.words, 2)

\* gate 1: the reason naming the first foreground pattern found, or None
ForegroundGate(stripped) ==
    LET hits == {i \in 1..Len(FOREGROUND_PATTERNS) :
                    ForegroundSearch(FOREGROUND_PATTERNS[i], stripped)}
    IN  IF hits = {} THEN None
        ELSE "BLOCKED: Foreground/interactive process detected ("
                 \o FOREGROUND_PATTERNS[Min(hits)].re
                 \o "). Rewrite as a one-shot command or background with timeout."

WriteWords ==
    {"tee", "mv", "cp", "rm", "rmdir", "mkdir", "touch", "chmod", "chown", "ln",
     "install", "dd", "wget"}

\* _WRITE_INDICATORS.search(t)
WriteIndicated(t) ==
    \E k \in 0..(Len(t) - 1) :
        \/ IsSpace(CharAt(t, k)) /\ At(t, k + 1) = ">" /\ IsSpace(At(t, k + 2))
        \/ IsSpace(CharAt(t, k)) /\ MatchAt(t, k + 1, ">>") /\ IsSpace(At(t, k + 3))
        \/ CharAt(t, k) = ">" /\ ~MatchAt(t, k + 1, "/dev/null")
        \/ /\ WordBoundary(t, k)
           /\ \E w \in WriteWords : MatchAt(t, k, w) /\ IsSpace(At(t, k + Len(w)))
        \/ /\ WordBoundary(t, k)
           /\ MatchAt(t, k, "curl")
           /\ IsSpace(At(t, k + 4))
           /\ \E j \in (k + 5)..(Len(t) - 2) :
                  /\ MatchAt(t, j, "-o")
                  /\ \A i \in (k + 5)..(j - 1) : CharAt(t, i) # "\n"

\* the non-whitespace run starting at offset s: group (\S+)
NonSpaceRun(t, s) == SubSeq(t, s + 1, NonSpaceRunEnd(t, s))

\* >{1,2}\s*(\S+) at offset k: the offset where the group starts, or -1
RedirectGroupAt(t, k) ==
    IF CharAt(t, k) # ">" THEN -1
    ELSE IF MatchAt(t, k, ">>") /\ SpaceRunEnd(t, k + 2) < Len(t) THEN SpaceRunEnd(t, k + 2)
    ELSE IF SpaceRunEnd(t, k + 1) < Len(t) THEN SpaceRunEnd(t, k + 1)
    ELSE -1

\* \btee\s+(?:-a\s+)?(\S+) at offset k: the offset where the group starts, or -1
TeeGroupAt(t, k) ==
    LET e == SpaceRunEnd(t, Min({k + 3, Len(t)}))
        a == SpaceRunEnd(t, Min({e + 2, Len(t)}))
    IN  IF ~(WordBoundary(t, k) /\ MatchAt(t, k, "tee") /\ e > k + 3) THEN -1
        ELSE IF MatchAt(t, e, "-a") /\ a > e + 2 /\ a < Len(t) THEN a
        ELSE IF e < Len(t) THEN e
        ELSE -1

\* (?:-o|--output)\s+(\S+) at offset k: the offset where the group starts, or -1
OutputGroupAt(t, k) ==
    LET n == IF MatchAt(t, k, "-o") THEN 2 ELSE IF MatchAt(t, k, "--output") THEN 8 ELSE 0
        e == SpaceRunEnd(t, Min({k + n, Len(t)}))
    IN  IF n > 0 /\ e > k + n /\ e < Len(t) THEN e ELSE -1

\* \b(?:wget\s+.*-O|curl\s+.*-o)\s*(\S+) at offset k: the offset where the
\* group starts (after the last flag that has one), or -1
DownloadGroupAt(t, k) ==
    LET flag == IF MatchAt(t, k, "wget") THEN "-O" ELSE "-o"
        flags == {j \in (k + 5)..(Len(t) - 2) :
                     /\ MatchAt(t, j, flag)
                     /\ SpaceRunEnd(t, j + 2) < Len(t)
                     /\ \A i \in (k + 5)..(j - 1) : CharAt(t, i) # "\n"}
    IN  IF /\ WordBoundary(t, k)
           /\ MatchAt(t, k, "wget") \/ MatchAt(t, k, "curl")
           /\ IsSpace(At(t, k + 4))
           /\ flags # {}
        THEN SpaceRunEnd(t, Max(flags) + 2)
        ELSE -1

\* which of the four single-group patterns is searched
GroupAt(kind, t, k) ==
    CASE kind = "redirect" -> RedirectGroupAt(t, k)
      [] kind = "tee" -> TeeGroupAt(t, k)
      [] kind = "download" -> DownloadGroupAt(t, k)
      [] kind = "output" -> OutputGroupAt(t, k)

RECURSIVE GroupTargets(_, _, _)
\* [m.group(1) for m in re.finditer(pattern, t)], searching from offset k on
GroupTargets(kind, t, k) ==
    IF k >= Len(t) THEN <<>>
    ELSE IF GroupAt(kind, t, k) < 0 THEN GroupTargets(kind, t, k + 1)
    ELSE <<NonSpaceRun(t, GroupAt(kind, t, k))>>
             \o GroupTargets(kind, t, NonSpaceRunEnd(t, GroupAt(kind, t, k)))

FileCommands == {"rm", "mv", "cp", "mkdir", "touch", "chmod", "chown", "ln"}

\* \b(?:rm|mv|...)\s+ at offset k: the offset where (.+?) starts, or -1
OperandsStartAt(t, k) ==
    LET ws == {w \in FileCommands : MatchAt(t, k, w) /\ IsSpace(At(t, k + Len(w)))}
    IN  IF WordBoundary(t, k) /\ ws # {}
           /\ SpaceRunEnd(t, k + Len(CHOOSE w \in ws : TRUE)) < Len(t)
        THEN SpaceRunEnd(t, k + Len(CHOOSE w \in ws : TRUE))
        ELSE -1

\* (.+?)(?:\s*[;&|]|$) from offset s: the offset where the group ends
OperandsEnd(t, s) ==
    Min({p \in (s + 1)..Len(t) :
            p = Len(t) \/ At(t, SpaceRunEnd(t, p)) \in {";", "&", "|"}})

\* the tokens of the operands that do not start with "-"
OperandTokens(text) == SelectSeq(SplitWords(text), LAMBDA token : ~MatchAt(token, 0, "-"))

RECURSIVE OperandTargets(_, _)
\* the operands of rm, mv, cp, mkdir, touch, chmod, chown and ln, from offset k on
OperandTargets(t, k) ==
    IF k >= Len(t) THEN <<>>
    ELSE IF OperandsStartAt(t, k) < 0 THEN OperandTargets(t, k + 1)
    ELSE OperandTokens(SubSeq(t, OperandsStartAt(t, k) + 1, OperandsEnd(t, OperandsStartAt(t, k))))
             \o OperandTargets(t, IF OperandsEnd(t, OperandsStartAt(t, k)) = Len(t) THEN Len(t)
                                  ELSE SpaceRunEnd(t, OperandsEnd(t, OperandsStartAt(t, k))) + 1)

_resolve_write_targets(cmd) ==
    GroupTargets("redirect", cmd, 0) \o GroupTargets("tee", cmd, 0) \o OperandTargets(cmd, 0)
        \o GroupTargets("download", cmd, 0) \o GroupTargets("output", cmd, 0)

RECURSIVE PathParts(_)
\* the components of a path: Path(p).parts without the root, "" and "."
PathParts(p) ==
    IF p = "" THEN <<>>
    ELSE LET cut == IF Contains(p, "/") THEN Find(p, "/") ELSE Len(p)
             first == Upto(p, cut)
         IN  (IF first \in {"", "."} THEN <<>> ELSE <<first>>) \o PathParts(From(p, cut + 1))

\* the symbolic links of the file system: link, as components, to its target
Symlinks == (<<"ws", "logs">> :> <<"var", "log">>)

RECURSIVE ResolveParts(_, _)
\* Path.resolve(): ".." steps up and a symbolic link is followed
ResolveParts(done, todo) ==
    IF todo = <<>> THEN done
    ELSE IF Head(todo) = ".."
    THEN ResolveParts(SubSeq(done, 1, Len(done) - 1), Tail(todo))
    ELSE IF Append(done, Head(todo)) \in DOMAIN Symlinks
    THEN ResolveParts(Symlinks[Append(done, Head(todo))], Tail(todo))
    ELSE ResolveParts(Append(done, Head(todo)), Tail(todo))

\* (workspace / target).resolve(), as components: an absolute target replaces
\* the workspace
Resolved(target, workspace) ==
    ResolveParts(<<>>, IF MatchAt(target, 0, "/") THEN PathParts(target)
                       ELSE PathParts(workspace) \o PathParts(target))

RECURSIVE JoinParts(_)
JoinParts(parts) ==
    IF parts = <<>> THEN "" ELSE "/" \o Head(parts) \o JoinParts(Tail(parts))

\* str(path) for an absolute path given by its components
PathStr(parts) == IF parts = <<>> THEN "/" ELSE JoinParts(parts)

\* variant of _is_inside_workspace: /dev/null is a path like any other
_is_inside_workspace_no_exemption(target, workspace) ==
    MatchAt(PathStr(Resolved(target, workspace)), 0, PathStr(Resolved("", workspace)))

_is_inside_workspace(target, workspace) ==
    \/ Strip(target) \in {"/dev/null", "NUL", "nul"}
    \/ MatchAt(PathStr(Resolved(target, workspace)), 0, PathStr(Resolved("", workspace)))

\* re.match(r"^sudo\s+(\S+)", stripped): the group, or no value
SudoMatch(stripped) ==
    IF /\ MatchAt(stripped, 0, "sudo")
       /\ SpaceRunEnd(stripped, 4) > 4
       /\ SpaceRunEnd(stripped, 4) < Len(stripped)
    THEN Some(NonSpaceRun(stripped, SpaceRunEnd(stripped, 4)))
    ELSE NoValue

\* sudo_subcmd.rsplit("/", 1)[-1]
Basename(p) ==
    LET slashes == {k \in 0..(Len(p) - 1) : CharAt(p, k) = "/"}
    IN  IF slashes = {} THEN p ELSE From(p, Max(slashes) + 1)

\* the first target outside the workspace, as a one-element sequence, or <<>>
FirstOutside(targets, workspace) ==
    FirstAt(targets, {i \in 1..Len(targets) : ~_is_inside_workspace(targets[i], workspace)})

SudoWriteOps == {"rm ", "mv ", "cp ", "chmod ", "chown "}

\* gate 2, for a command that starts with sudo
SudoGate(stripped, workspace) ==
    LET sudo_subcmd == Basename(SudoMatch(stripped)[1])
        inner_cmd == From(stripped, Find(stripped, sudo_subcmd))
        outside == FirstOutside(_resolve_write_targets(inner_cmd), workspace)
    IN  IF sudo_subcmd \notin SUDO_ALLOWLIST
        THEN "BLOCKED: sudo " \o sudo_subcmd \o " is not on the allowed list. "
                 \o "Allowed sudo commands: " \o SortedAllowlist
        ELSE IF outside # <<>> /\ \E op \in SudoWriteOps : Contains(inner_cmd, op)
        THEN "BLOCKED: sudo command writes outside workspace: " \o outside[1]
        ELSE None

\* gate 3, for a command that does not start with sudo
WriteGate(stripped, workspace) ==
    LET outside == FirstOutside(_resolve_write_targets(stripped), workspace)
    IN  IF WriteIndicated(stripped) /\ outside # <<>>
        THEN "BLOCKED: Command writes outside workspace: " \o outside[1]
                 \o ". All file modifications must target paths within " \o workspace
        ELSE None

\* variant of sandbox_check: the sudo and write gates come before the
\* foreground gate
sandbox_check_foreground_last(cmd, workspace) ==
    LET stripped == Strip(cmd)
        gate == IF SudoMatch(stripped) # NoValue THEN SudoGate(stripped, workspace)
                ELSE WriteGate(stripped, workspace)
    IN  IF gate # None THEN gate ELSE ForegroundGate(stripped)

\* the block reason, or None when the command may run
sandbox_check(cmd, workspace) ==
    LET stripped == Strip(cmd)
    IN  IF ForegroundGate(stripped) # None THEN ForegroundGate(stripped)
        ELSE IF SudoMatch(stripped) # NoValue THEN SudoGate(stripped, workspace)
        ELSE WriteGate(stripped, workspace)

cmd_timeout_default == 30

cmd_timeout_install == 300

OUTPUT_MAX == 8000

\* t[:n]
Truncate(t, n) == IF Len(t) > n THEN Upto(t, n) ELSE t

InstallPatterns == {"apt install", "pip install", "npm install", "cargo build"}

\* the timeout execute_command gives the subprocess
CommandTimeout(cmd) ==
    IF \E pat \in InstallPatterns : Contains(cmd, pat)
    THEN cmd_timeout_install ELSE cmd_timeout_default

\* variant of Spawns: the subprocess is started whatever the sandbox says
SpawnsAlways(block_reason) == TRUE

\* `if block_reason: return ...`: the subprocess is started only without one
Spawns(block_reason) == block_reason = None

\* the dict execute_command returns
CommandResult(stdout, stderr, returncode, timed_out) ==
    [stdout |-> stdout, stderr |-> stderr, returncode |-> returncode, timed_out |-> timed_out]

\* the dict after subprocess.run ended with outcome
SubprocessResult(cmd, outcome) ==
    CASE outcome.kind = "completed" ->
             CommandResult(Truncate(outcome.stdout, OUTPUT_MAX),
                           Truncate(outcome.stderr, OUTPUT_MAX), outcome.returncode, FALSE)
      [] outcome.kind = "timeout" ->
             CommandResult("", "Command timed out after " \o ToString(CommandTimeout(cmd)) \o "s",
                           -1, TRUE)
      [] outcome.kind = "error" -> CommandResult("", outcome.stderr, -1, FALSE)

\* execute_command against the outcome the subprocess would have: the dict
\* returned, and whether subprocess.run was called
execute_command(cmd, workspace, outcome) ==
    IF Spawns(sandbox_check(cmd, workspace))
    THEN [result |-> SubprocessResult(cmd, outcome), spawned |-> TRUE]
    ELSE [result |-> CommandResult("", sandbox_check(cmd, workspace), -1, FALSE),
          spawned |-> FALSE]

(***************************************************************************)
(* run_tests: the test command and its verdict                             *)
(***************************************************************************)

\* the command line run_tests hands to execute_command
TestCommand(filename) == "python -m pytest " \o filename \o " -v --tb=short 2>&1"

\* variant of run_tests: any returncode but 1 counts as a pass
run_tests_passing_unless_one(workspace, filename, exists, outcome) ==
    IF ~exists
    THEN [passed |-> FALSE, output |-> "Test file not found: " \o filename,
          executed |-> FALSE, spawned |-> FALSE]
    ELSE LET e == execute_command(TestCommand(filename), workspace, outcome)
         IN  [passed |-> e.result.returncode # 1,
              output |-> e.result.stdout \o e.result.stderr,
              executed |-> TRUE, spawned |-> e.spawned]

\* run_tests with the test file present or not (exists) and the outcome the
\* subprocess would have: the dict returned, whether execute_command was
\* called (executed) and whether it started the subprocess (spawned)
run_tests(workspace, filename, exists, outcome) ==
    IF ~exists
    THEN [passed |-> FALSE, output |-> "Test file not found: " \o filename,
          executed |-> FALSE, spawned |-> FALSE]
    ELSE LET e == execute_command(TestCommand(filename), workspace, outcome)
         IN  [passed |-> e.result.returncode = 0,
              output |-> e.result.stdout \o e.result.stderr,
              executed |-> TRUE, spawned |-> e.spawned]

(***************************************************************************)
(* parse_json_output.  json.loads is the library's: JsonKinds gives, for   *)
(* each JSON document of the model, the kind of value json.loads returns   *)
(* for it; every other text is a JSONDecodeError.                           *)
(***************************************************************************)

\* the code fence of three backquotes, written with apostrophes (a string of
\* the model cannot hold a backquote)
Fence == "'''"

ObjectDoc == "{\"diagnosis\": \"off by one\"}"

EntryDoc == "{\"file\": \"clamp.py\"}"

ArrayDoc == "[" \o EntryDoc \o "]"

JsonKinds ==
    (ObjectDoc :> "object") @@ (EntryDoc :> "object") @@ (ArrayDoc :> "array")
    @@ ("\"ok\"" :> "string") @@ ("42" :> "number") @@ ("null" :> "null") @@ ("true" :> "boolean")

\* json.loads(s): the kind of the value returned, or NoValue for a
\* JSONDecodeError; white space around the document is skipped
JsonLoads(s) ==
    IF Strip(s) \in DOMAIN JsonKinds THEN Some(JsonKinds[Strip(s)]) ELSE NoValue

\* ^ under re.MULTILINE
AtLineStart(t, i) == i = 0 \/ CharAt(t, i - 1) = "\n"

RECURSIVE StripOpeningFences(_, _)
\* re.sub(r"^```(?:json)?\s*\n?", "", t, flags=re.MULTILINE) from offset k:
\* a fence at a line start goes with `json` and the white space behind it
StripOpeningFences(t, k) ==
    LET hits == {i \in k..(Len(t) - 3) : AtLineStart(t, i) /\ MatchAt(t, i, Fence)}
    IN  IF hits = {} THEN From(t, k)
        ELSE LET i == Min(hits)
                 b == IF MatchAt(t, i + 3, "json") THEN i + 7 ELSE i + 3
             IN  SubSeq(t, k + 1, i) \o StripOpeningFences(t, SpaceRunEnd(t, b))

\* ```\s*$ with the fence at offset f: the offset where the match ends (the
\* end of the text, or the last newline of the white space behind the
\* fence), or -1 when the white space is followed by text on the same line
ClosingFenceEnd(t, f) ==
    LET r == SpaceRunEnd(t, f + 3)
        newlines == {j \in (f + 3)..(r - 1) : CharAt(t, j) = "\n"}
    IN  IF ~MatchAt(t, f, Fence) THEN -1
        ELSE IF r = Len(t) THEN r
        ELSE IF newlines = {} THEN -1 ELSE Max(newlines)

\* \n?```\s*$ starting at offset s: the offset where the match ends, or -1
ClosingFenceAt(t, s) ==
    IF CharAt(t, s) = "\n" THEN ClosingFenceEnd(t, s + 1) ELSE ClosingFenceEnd(t, s)

RECURSIVE StripClosingFences(_, _)
\* re.sub(r"\n?```\s*$", "", t, flags=re.MULTILINE) from offset k
StripClosingFences(t, k) ==
    LET hits == {s \in k..(Len(t) - 3) : ClosingFenceAt(t, s) >= 0}
    IN  IF hits = {} THEN From(t, k)
        ELSE SubSeq(t, k + 1, Min(hits))
                 \o StripClosingFences(t, ClosingFenceAt(t, Min(hits)))

\* the text handed to the first json.loads
Cleaned(text) ==
    StripClosingFences(Strip(StripOpeningFences(Strip(text), 0)), 0)

\* re.search(r"\{[\s\S]*\}", text): from the first opening brace to the last
\* closing brace behind it
BraceMatch(text) ==
    LET i == Find(text, "{")
        closes == {j \in (i + 1)..(Len(text) - 1) : CharAt(text, j) = "}"}
    IN  IF i < 0 \/ closes = {} THEN NoValue ELSE Some(SubSeq(text, i + 1, Max(closes) + 1))

PARSE_ERROR_PREVIEW == 500

ParseReturned(kind) == [raised |-> FALSE, kind |-> kind, message |-> ""]

ParseFault(text) ==
    [raised |-> TRUE, kind |-> "",
     message |-> "Could not parse JSON from model output:\n" \o Truncate(text, PARSE_ERROR_PREVIEW)]

\* parse_json_output: what it returns (the kind of the JSON value) or the
\* ValueError it raises
parse_json_output(text) ==
    IF JsonLoads(Cleaned(text)) # NoValue THEN ParseReturned(JsonLoads(Cleaned(text))[1])
    ELSE IF BraceMatch(text) # NoValue /\ JsonLoads(BraceMatch(text)[1]) # NoValue
         THEN ParseReturned(JsonLoads(BraceMatch(text)[1])[1])
         ELSE ParseFault(text)

(***************************************************************************)
(* call_model: one blocking call with its retries                          *)
(* A call in progress is [attempt, slept, status, content, raised]:        *)
(* attempt is the number of requests posted, slept the time.sleep delays   *)
(* in order, status "running", "returned" or "fatal", raised the exception *)
(* of the last request (None when it raised none).                         *)
(***************************************************************************)

\* for attempt in range(4)
MAX_ATTEMPTS == 4

\* variant of RETRY_DELAYS: a constant back-off
RETRY_DELAYS_CONSTANT == <<2, 2, 2>>

\* [2, 8, 32][attempt]
RETRY_DELAYS == <<2, 8, 32>>

\* the exceptions of the first except clause
TransportFaults == {"ConnectionError", "Timeout"}

\* the profile whose sampling parameters a call uses
ProfileUsed(profile) ==
    IF profile \in {"planner", "implementer", "conservative", "consultant"}
    THEN profile ELSE "implementer"

CallStart == [attempt |-> 0, slept |-> <<>>, status |-> "running", content |-> "",
              raised |-> None]

\* one pass of the retry loop on the call c, the request ending as outcome:
\* [kind |-> "ok", content] or [kind |-> the exception raised, content |-> ""]
CallAttempt(c, outcome) ==
    LET posted == [c EXCEPT !.attempt = c.attempt + 1]
    IN  IF outcome.kind = "ok"
        THEN [posted EXCEPT !.status = "returned", !.content = outcome.content,
                            !.raised = None]
        ELSE IF outcome.kind \in TransportFaults /\ c.attempt < MAX_ATTEMPTS - 1
        THEN [posted EXCEPT !.raised = outcome.kind,
                            !.slept = Append(c.slept, RETRY_DELAYS[c.attempt + 1])]
        ELSE [posted EXCEPT !.raised = outcome.kind, !.status = "fatal"]

\* isomoira.py, call_model: the request is posted once; any exception is
\* fatal, a connection fault with a message of its own
CallOnce(c, outcome) ==
    LET posted == [c EXCEPT !.attempt = c.attempt + 1]
    IN  IF outcome.kind = "ok"
        THEN [posted EXCEPT !.status = "returned", !.content = outcome.content,
                            !.raised = None]
        ELSE [posted EXCEPT !.raised = outcome.kind, !.status = "fatal"]

RECURSIVE CallLoop(_, _)
\* isomira.py, call_model as a whole: the retry loop from the call c, the
\* k-th request from now ending as outcomes[k]
CallLoop(c, outcomes) ==
    IF c.status # "running" \/ c.attempt >= MAX_ATTEMPTS \/ outcomes = <<>> THEN c
    ELSE CallLoop(CallAttempt(c, Head(outcomes)), Tail(outcomes))

(***************************************************************************)
(* Model outputs: strip_think_blocks and the call sites of run()           *)
(***************************************************************************)

RECURSIVE RemoveThinkBlocks(_)
\* re.sub(r"<think>[\s\S]*?</think>", "", text): the leftmost opening tag that
\* has a closing tag after it is removed up to the nearest closing tag, and
\* the scan goes on behind it
RemoveThinkBlocks(t) ==
    LET i == Find(t, "<think>")
        j == IF i < 0 THEN -1 ELSE Find(From(t, i + 7), "</think>")
    IN  IF j < 0 THEN t
        ELSE Upto(t, i) \o RemoveThinkBlocks(From(t, i + 7 + j + 8))

strip_think_blocks(text) == Strip(RemoveThinkBlocks(text))

\* the model a call of the phase is sent to, CONFIG being the record of the
\* three model identifiers
CallModelName(phase, CONFIG, effective) ==
    CASE phase \in {"plan", "dk_ping", "replan"} -> CONFIG.consultant_model
      [] phase = "implement" -> CONFIG.implementer_model
      [] phase \in {"audit", "review"} ->
             IF effective >= STUCK_THRESHOLD THEN CONFIG.consultant_model
             ELSE CONFIG.planner_model

\* the role a call of the phase is made in
CallRole(phase, effective) ==
    CASE phase \in {"plan", "dk_ping", "replan"} -> "consultant"
      [] phase = "implement" -> "implementer"
      [] phase \in {"audit", "review"} ->
             IF effective >= STUCK_THRESHOLD THEN "consultant" ELSE "planner"

\* what the phase hands to its parser, given the text call_model returned
HandledOutput(phase, CONFIG, effective, output) ==
    CASE phase \in {"plan", "dk_ping", "replan"} -> strip_think_blocks(output)
      [] phase = "implement" -> output
      [] phase \in {"audit", "review"} ->
             IF CallModelName(phase, CONFIG, effective) = CONFIG.consultant_model
             THEN strip_think_blocks(output)
             ELSE output

(***************************************************************************)
(* Prompt assembly: the four assemblers and their truncation step.  The    *)
(* fixed instruction text of each system prompt is cut to its first        *)
(* sentence; scope and implementation files are absent.                    *)
(***************************************************************************)

\* len(text) // 3
estimate_tokens(text) == Len(text) \div 3

\* tokens kept free for the reply when the user prompt is cut
CONTEXT_RESERVE == 500

TruncationMarker == "\n\n[...truncated to fit context window...]"

\* text[:n], n of either sign
SliceTo(text, n) ==
    IF n >= 0 THEN Upto(text, IF n < Len(text) THEN n ELSE Len(text))
    ELSE Upto(text, IF Len(text) + n > 0 THEN Len(text) + n ELSE 0)

\* variant of truncate_context: the text is cut and no marker is added
truncate_context_unmarked(text, max_tokens) ==
    IF Len(text) <= max_tokens * 3 THEN text ELSE SliceTo(text, max_tokens * 3)

truncate_context(text, max_tokens) ==
    IF Len(text) <= max_tokens * 3 THEN text
    ELSE SliceTo(text, max_tokens * 3) \o TruncationMarker

\* the step the assemblers end with, max_context_tokens being
\* CONFIG["max_context_tokens"] at the time of the call
FitContext(system_prompt, user_prompt, max_context_tokens) ==
    <<system_prompt,
      IF estimate_tokens(system_prompt \o user_prompt) > max_context_tokens
      THEN truncate_context(user_prompt,
                            max_context_tokens - estimate_tokens(system_prompt) - CONTEXT_RESERVE)
      ELSE user_prompt>>

\* <<system_prompt, user_prompt>> as assembled, before the truncation step;
\* a is [assembler, philosophy, task, second, third]: second is the codebase
\* summary, the plan as JSON or the test file, third the diagnosis or the
\* test output
AssembledPrompt(a) ==
    CASE a.assembler = "plan" ->
             <<a.philosophy \o "\n\nYou are the planning profile in a single-model TDD pipeline.",
               JoinTexts(<<a.task, "---", a.second>>, "\n\n")>>
      [] a.assembler = "implement" ->
             <<a.philosophy \o "\n\nYou are the implementation model.",
               JoinTexts(<<a.task, "---\n## Implementation Plan\n" \o a.second>>
                             \o (IF a.third # ""
                                 THEN <<"---\n## Previous Attempt Failed\n"
                                            \o "The previous implementation had these issues:\n"
                                            \o a.third>>
                                 ELSE <<>>),
                         "\n\n")>>
      [] a.assembler = "test_audit" ->
             <<a.philosophy \o "\n\nYou are auditing tests for correctness.",
               JoinTexts(<<a.task,
                           "---\n## Test File\n" \o Fence \o "\n" \o a.second \o "\n" \o Fence,
                           "---\n## Test Output (failures)\n" \o Fence \o "\n" \o a.third \o "\n" \o Fence>>,
                         "\n\n")>>
      [] a.assembler = "review" ->
             <<a.philosophy \o "\n\nThe tests have been verified as correct.",
               JoinTexts(<<a.task,
                           "---\n## Test File\n" \o Fence \o "\n" \o a.second \o "\n" \o Fence,
                           "---\n## Test Output (failures)\n" \o Fence \o "\n" \o a.third \o "\n" \o Fence>>,
                         "\n\n")>>

\* assemble_plan_context, assemble_implement_context,
\* assemble_test_audit_context and assemble_review_context
AssembleContext(a, max_context_tokens) ==
    FitContext(AssembledPrompt(a)[1], AssembledPrompt(a)[2], max_context_tokens)

(***************************************************************************)
(* Files written from model output                                         *)
(***************************************************************************)

\* the workspace directory of the run (CONFIG["workspace"], resolved)
RunWorkspace == "/ws"

\* the file that `workspace / path` names when write_text opens it, as
\* components: pathlib lets an absolute path replace the workspace, and the
\* file system steps up at ".."
WrittenFile(workspace, path) == Resolved(path, workspace)

RECURSIVE TestFileAfter(_, _)
\* the text of the test file after the file blocks were written in order: a
\* block whose path names the test file replaces it
TestFileAfter(content, blocks) ==
    IF blocks = <<>> THEN content
    ELSE TestFileAfter(IF WrittenFile(RunWorkspace, Head(blocks).path)
                              = WrittenFile(RunWorkspace, test_filename)
                       THEN Head(blocks).content ELSE content,
                       Tail(blocks))

\* the run() sites that write a file named by model output: the test file of
\* the plan (PHASE 2), of the re-plan and of the audit, and each file block
WriteSites == {"plan", "implement", "replan", "audit"}

(***************************************************************************)
(* The controller: run()                                                   *)
(***************************************************************************)

HaltStates == {"HALT_DK_UNPARSEABLE", "HALT_DK_LOW_CONFIDENCE", "HALT_DK_SIZE_CAP"}

FatalStates == {"FATAL_PLAN_PARSE"}

TerminalStates == {"SUCCESS"} \cup HaltStates \cup FatalStates

\* one external operation, as recorded in trace; cmd and returncode are the
\* command of an execute_command call and the returncode of its result
Op(phase, op, model, profile) ==
    [phase |-> phase, op |-> op, model |-> model, profile |-> profile,
     cmd |-> "", returncode |-> 0]

CallModel(phase, model, profile) == Op(phase, "call_model", model, profile)

WriteFile(phase) == Op(phase, "write_file", "", "")

\* fatal(): log, bell, sys.exit(1)
FatalExit == 1

\* run() returns and the script ends
ReturnExit == 0

\* variant of PlanRejected: a plan without a usable entry is let through
PlanRejectedKeepingEmptyPlan(reply) ==
    \/ ~reply.parse_ok
    \/ "tests" \notin DOMAIN reply.data
    \/ "plan" \notin DOMAIN reply.data
    \/ Get(reply.data.tests, "content", "") = ""

\* the plan document is rejected: unparseable, a key missing, no test content
\* or no normalised entry
PlanRejected(reply) ==
    \/ ~reply.parse_ok
    \/ "tests" \notin DOMAIN reply.data
    \/ "plan" \notin DOMAIN reply.data
    \/ Get(reply.data.tests, "content", "") = ""
    \/ normalize_plan(reply.data.plan, "") = <<>>

\* what PHASE 2 does with a rejected plan document
OnPlanRejected == "FATAL_PLAN_PARSE"

\* PHASE 2: PLAN
Plan(replies) ==
    /\ pc = "plan"
    /\ last_call' = Some(CallModel("plan", "consultant", ProfileUsed("consultant")))
    /\ prompt' = [kind |-> "plan", task |-> task]
    /\ \E r \in replies :
        /\ plan_reply' = r
        /\ IF PlanRejected(r)
           THEN /\ pc' = OnPlanRejected
                /\ exit_code' = IF OnPlanRejected \in FatalStates THEN FatalExit ELSE exit_code
                /\ trace' = <<CallModel("plan", "consultant", "consultant")>>
                /\ UNCHANGED <<plan, test_filename, test_content, test_file, original_test_count>>
           ELSE /\ pc' = "implement"
                /\ test_filename' = Get(r.data.tests, "filename", "test_module.py")
                /\ test_content' = r.data.tests.content
                /\ test_file' = r.data.tests.content
                /\ plan' = normalize_plan(r.data.plan, "")
                /\ original_test_count' = count_test_functions(r.data.tests.content)
                /\ trace' = <<CallModel("plan", "consultant", "consultant"), WriteFile("plan")>>
                /\ UNCHANGED exit_code
    /\ UNCHANGED <<iteration, task, task_file, task_at_start, last_test_hash, stuck_count,
                   last_failing_set, failing_set_count, effective_stuck, last_impl_hash,
                   impl_stable_count, last_diagnosis, last_review_code, test_result,
                   file_blocks, cmd_blocks, dk_reply, dk_cap, review_reply, args, ret>>

\* the stuck hint handed to assemble_implement_context ("" when there is none)
StuckHint ==
    IF stuck_count >= STUCK_THRESHOLD
    THEN "You have produced the SAME failing implementation " \o ToString(stuck_count) \o " times."
    ELSE ""

RECURSIVE ImplContent(_)
\* "".join(b["content"] for b in file_blocks)
ImplContent(blocks) ==
    IF blocks = <<>> THEN "" ELSE Head(blocks).content \o ImplContent(Tail(blocks))

\* a counter's next value: bounded by the guard of its action, or, with
\* saturate, kept at max once there (every value >= max is abstracted to max)
Bump(n, max, saturate) == IF saturate /\ n >= max THEN n ELSE n + 1

\* PHASE 3: IMPLEMENT, up to the command blocks: the iteration starts, the
\* implementer is called, its file blocks are written and hashed.
Implement(replies, max_iter, saturate) ==
    /\ pc = "implement"
    /\ saturate \/ iteration < max_iter
    /\ iteration' = Bump(iteration, max_iter, saturate)
    /\ prompt' = [kind |-> "implement",
                  task |-> task,
                  diagnosis |-> last_diagnosis,
                  test_output |-> IF iteration' > 1 THEN test_result.output ELSE "",
                  stuck_hint |-> StuckHint,
                  review_code |-> last_review_code]
    /\ \E r \in replies :
        /\ file_blocks' = r.file_blocks
        /\ cmd_blocks' = r.cmd_blocks
        /\ test_file' = TestFileAfter(test_file, r.file_blocks)
        /\ trace' = <<CallModel("implement", "implementer", "implementer")>>
                       \o [i \in 1..Len(r.file_blocks) |-> WriteFile("implement")]
        /\ IF Some(Md5(ImplContent(r.file_blocks))) = last_impl_hash
           THEN /\ impl_stable_count' = Bump(impl_stable_count, max_iter, saturate)
                /\ UNCHANGED last_impl_hash
           ELSE /\ impl_stable_count' = 0
                /\ last_impl_hash' = Some(Md5(ImplContent(r.file_blocks)))
    /\ review_reply' = NoValue
    /\ last_call' = Some(CallModel("implement", "implementer", ProfileUsed("implementer")))
    /\ pc' = "run_commands"
    /\ UNCHANGED <<exit_code, task, task_file, task_at_start, plan, test_filename,
                   test_content, original_test_count, last_test_hash, stuck_count,
                   last_failing_set, failing_set_count, effective_stuck, last_diagnosis,
                   last_review_code, test_result, plan_reply, dk_reply, dk_cap, args, ret>>

\* one execute_command call of the loop over cmd_blocks
Executed(cmd, outcome) ==
    [Op("implement", "execute_command", "", "") EXCEPT
        !.cmd = cmd,
        !.returncode = execute_command(cmd, RunWorkspace, outcome).result.returncode]

\* variant of ExecutedCommands: the loop is left at the first command whose
\* returncode is not 0
RECURSIVE ExecutedCommandsUntilFailure(_, _)
ExecutedCommandsUntilFailure(cmds, outcomes) ==
    IF cmds = <<>> THEN <<>>
    ELSE IF Executed(Head(cmds), Head(outcomes)).returncode # 0
         THEN <<Executed(Head(cmds), Head(outcomes))>>
         ELSE <<Executed(Head(cmds), Head(outcomes))>>
                  \o ExecutedCommandsUntilFailure(Tail(cmds), Tail(outcomes))

\* `for cmd in cmd_blocks`: every command is handed to execute_command, in
\* order; a returncode other than 0 is logged and the loop goes on
ExecutedCommands(cmds, outcomes) ==
    [i \in 1..Len(cmds) |-> Executed(cmds[i], outcomes[i])]

\* PHASE 3, the command blocks, against the outcome each subprocess would have
RunCommands(outcomes) ==
    /\ pc = "run_commands"
    /\ \E outs \in [1..Len(cmd_blocks) -> outcomes] :
           trace' = trace \o ExecutedCommands(cmd_blocks, outs)
    /\ pc' = "test"
    /\ UNCHANGED <<exit_code, iteration, task, task_file, task_at_start, plan,
                   test_filename, test_content, test_file, original_test_count, last_test_hash,
                   stuck_count, last_failing_set, failing_set_count, effective_stuck,
                   last_impl_hash, impl_stable_count, last_diagnosis, last_review_code,
                   test_result, prompt, file_blocks, cmd_blocks, plan_reply,
                   dk_reply, dk_cap, review_reply, last_call, args, ret>>

\* PHASE 4: TEST and the stuck-loop detection
Test(results) ==
    /\ pc = "test"
    /\ \E res \in results :
        /\ test_result' = res
        /\ trace' = Append(trace, Op("test", "run_tests", "", ""))
        /\ IF res.passed
           THEN /\ UNCHANGED <<last_test_hash, stuck_count, last_failing_set,
                               failing_set_count, effective_stuck>>
                /\ pc' = AfterTest(TRUE, effective_stuck)
           ELSE /\ stuck_count' = NextStuckCount(res.output)
                /\ last_test_hash' = Some(TestHash(res.output))
                /\ failing_set_count' = NextFailingSetCount(res.output)
                /\ last_failing_set' = Some(FailingSet(SplitLines(res.output)))
                /\ effective_stuck' = EffectiveStuck(stuck_count', failing_set_count')
                /\ pc' = AfterTest(FALSE, effective_stuck')
    /\ exit_code' = IF pc' = "SUCCESS" THEN ReturnExit ELSE exit_code
    /\ UNCHANGED <<iteration, task, task_file, task_at_start, plan, test_filename,
                   test_content, test_file, original_test_count, last_impl_hash, impl_stable_count,
                   last_diagnosis, last_review_code, prompt, file_blocks, cmd_blocks,
                   plan_reply, dk_reply, dk_cap, review_reply, last_call, args, ret>>

\* DK PING: the consultant's amendment of task.md, or the halt
DkPing(replies) ==
    /\ pc = "dk_ping"
    /\ last_call' = Some(CallModel("dk_ping", "consultant", ProfileUsed("consultant")))
    /\ dk_cap' = TaskSizeCap(task_file)
    /\ prompt' = [kind |-> "dk_ping", task |-> task_file, test_output |-> test_result.output]
    /\ \E r \in replies :
        LET outcome == DkOutcome(r, task_file, iteration)
        IN  /\ dk_reply' = r
            /\ pc' = outcome.to
            /\ IF outcome.to = "replan"
               THEN /\ task_file' = outcome.task
                    /\ task' = outcome.task
                    /\ stuck_count' = 0
                    /\ failing_set_count' = 0
                    /\ last_test_hash' = NoValue
                    /\ last_failing_set' = NoValue
                    /\ trace' = trace \o <<CallModel("dk_ping", "consultant", "consultant"),
                                           WriteFile("dk_ping")>>
                    /\ UNCHANGED exit_code
               ELSE /\ exit_code' = ReturnExit
                    /\ trace' = Append(trace, CallModel("dk_ping", "consultant", "consultant"))
                    /\ UNCHANGED <<task_file, task, stuck_count, failing_set_count,
                                   last_test_hash, last_failing_set>>
    /\ UNCHANGED <<iteration, task_at_start, plan, test_filename, test_content, test_file,
                   original_test_count, effective_stuck, last_impl_hash, impl_stable_count,
                   last_diagnosis, last_review_code, test_result, file_blocks,
                   cmd_blocks, plan_reply, review_reply, args, ret>>

\* a re-plan reply's tests replace the current ones
ReplanTakesTests(data) ==
    /\ "tests" \in DOMAIN data
    /\ Get(data.tests, "content", "") # ""
    /\ count_test_functions(data.tests.content) >= original_test_count

\* RE-PLANNING with the amended task
Replan(replies) ==
    /\ pc = "replan"
    /\ last_call' = Some(CallModel("replan", "consultant", ProfileUsed("consultant")))
    /\ prompt' = [kind |-> "plan", task |-> task]
    /\ trace' = <<>>
    /\ \E r \in replies :
        /\ plan_reply' = r
        /\ plan' = IF /\ r.parse_ok
                      /\ "plan" \in DOMAIN r.data
                      /\ normalize_plan(r.data.plan, "") # <<>>
                   THEN normalize_plan(r.data.plan, "") ELSE plan
        /\ IF r.parse_ok /\ ReplanTakesTests(r.data)
           THEN /\ test_filename' = Get(r.data.tests, "filename", test_filename)
                /\ test_content' = r.data.tests.content
                /\ test_file' = r.data.tests.content
                /\ original_test_count' = count_test_functions(r.data.tests.content)
           ELSE UNCHANGED <<test_filename, test_content, test_file, original_test_count>>
    /\ pc' = "implement"
    /\ UNCHANGED <<exit_code, iteration, task, task_file, task_at_start, last_test_hash,
                   stuck_count, last_failing_set, failing_set_count, effective_stuck,
                   last_impl_hash, impl_stable_count, last_diagnosis, last_review_code,
                   test_result, file_blocks, cmd_blocks, dk_reply, dk_cap, review_reply,
                   args, ret>>

\* variant of ReviewerRole: the planner audits and reviews whatever the score
ReviewerRoleNeverEscalates == "planner"

\* the role that audits and reviews: the consultant once the run is stuck
ReviewerRole == IF effective_stuck >= STUCK_THRESHOLD THEN "consultant" ELSE "planner"

\* the audit's replacement test block is written whatever its test count
AuditTakesTestsAnyCount(reply) ==
    LET data == IF reply.parse_ok THEN reply.data
                ELSE [tests_correct |-> TRUE, issues |-> <<>>]
    IN  /\ ~Get(data, "tests_correct", TRUE)
        /\ "tests" \in DOMAIN data
        /\ DOMAIN data.tests # {}

\* the audit's replacement test block is written
AuditTakesTests(reply) ==
    LET data == IF reply.parse_ok THEN reply.data
                ELSE [tests_correct |-> TRUE, issues |-> <<>>]
    IN  /\ ~Get(data, "tests_correct", TRUE)
        /\ "tests" \in DOMAIN data
        /\ DOMAIN data.tests # {}
        /\ count_test_functions(Get(data.tests, "content", "")) >= original_test_count

\* PHASE 5A: TEST AUDIT; the test text is read again from the test file
Audit(replies) ==
    /\ pc = "audit"
    /\ last_call' = Some(CallModel("audit", ReviewerRole, ProfileUsed(ReviewerRole)))
    /\ prompt' = [kind |-> "audit", task |-> task, test_content |-> test_file,
                  test_output |-> test_result.output]
    /\ \E r \in replies :
        /\ review_reply' = Some(r)
        /\ IF AuditTakesTests(r)
           THEN /\ test_filename' = Get(r.data.tests, "filename", test_filename)
                /\ test_content' = Get(r.data.tests, "content", "")
                /\ test_file' = Get(r.data.tests, "content", "")
                /\ original_test_count' = count_test_functions(Get(r.data.tests, "content", ""))
                /\ trace' = <<>>
                /\ pc' = "implement"
           ELSE /\ trace' = Append(trace, CallModel("audit", ReviewerRole, ReviewerRole))
                /\ pc' = "review"
                /\ test_content' = test_file
                /\ UNCHANGED <<test_filename, test_file, original_test_count>>
    /\ UNCHANGED <<exit_code, iteration, task, task_file, task_at_start, plan,
                   last_test_hash, stuck_count, last_failing_set, failing_set_count,
                   effective_stuck, last_impl_hash, impl_stable_count, last_diagnosis,
                   last_review_code, test_result, file_blocks, cmd_blocks,
                   plan_reply, dk_reply, dk_cap, args, ret>>

\* variant of ReviewedPlan: the normalised review plan is taken even when it
\* has no entry
ReviewedPlanTakingEmpty(data) ==
    IF "plan" \in DOMAIN data /\ data.plan # <<>>
    THEN normalize_plan(data.plan, IF plan # <<>> THEN DictItem(plan[1], "file")[3] ELSE "")
    ELSE plan

\* the plan after a parsed review reply
ReviewedPlan(data) ==
    IF "plan" \in DOMAIN data /\ data.plan # <<>>
    THEN LET fallback == IF plan # <<>> THEN DictItem(plan[1], "file")[3] ELSE ""
             new_plan == normalize_plan(data.plan, fallback)
         IN  IF new_plan # <<>> THEN new_plan ELSE plan
    ELSE plan

\* variant of ReviewedDiagnosis: an unparseable review clears the diagnosis
ReviewedDiagnosisCleared(reply) ==
    IF reply.parse_ok THEN Get(reply.data, "diagnosis", last_diagnosis) ELSE ""

\* last_diagnosis after the review reply: an unparseable reply is logged and
\* the loop continues before the diagnosis is stored
ReviewedDiagnosis(reply) ==
    IF reply.parse_ok THEN Get(reply.data, "diagnosis", last_diagnosis) ELSE last_diagnosis

\* PHASE 5B: IMPLEMENTATION REVIEW
Review(replies) ==
    /\ pc = "review"
    /\ last_call' = Some(CallModel("review", ReviewerRole, ProfileUsed(ReviewerRole)))
    /\ \E r \in replies :
        /\ review_reply' = Some(r)
        /\ last_diagnosis' = ReviewedDiagnosis(r)
        /\ IF r.parse_ok
           THEN /\ last_review_code' = extract_review_code(r.data)
                /\ plan' = ReviewedPlan(r.data)
           ELSE UNCHANGED <<last_review_code, plan>>
    /\ prompt' = [kind |-> "review", task |-> task, test_content |-> test_content,
                  test_output |-> test_result.output]
    /\ trace' = <<>>
    /\ pc' = "implement"
    /\ UNCHANGED <<exit_code, iteration, task, task_file, task_at_start, test_filename,
                   test_content, test_file, original_test_count, last_test_hash, stuck_count,
                   last_failing_set, failing_set_count, effective_stuck, last_impl_hash,
                   impl_stable_count, test_result, file_blocks, cmd_blocks,
                   plan_reply, dk_reply, dk_cap, args, ret>>

(***************************************************************************)
(* The environment: task files, model replies and test outcomes            *)
(***************************************************************************)

TaskWithDK ==
    "# Task\nclamp values\n\n## Domain Knowledge\n\nranges are closed\n\n## Constraints\n\n- stdlib only\n"

TaskEmptyDK == "# Task\nclamp values\n\n## Domain Knowledge\n\n## Constraints\n\n- stdlib only\n"

TaskNoDK == "# Task\nclamp values\n"

Tasks == {TaskWithDK}

TwoTests == "def test_a():\n    assert clamp(2) == 1\ndef test_b():\n    assert clamp(-1) == 0\n"

OneTest == "def test_a():\n    assert clamp(2) == 1\n"

ThreeTests == TwoTests \o "def test_c():\n    assert clamp(0) == 0\n"

DictEntry(items) == [kind |-> "dict", items |-> items, text |-> ""]

StrEntry(text) == [kind |-> "str", items |-> <<>>, text |-> text]

FilePlan == <<DictEntry(<<<<"file", "str", "clamp.py">>, <<"action", "str", "create">>>>)>>

\* an entry that names no file: dropped unless a fallback file is given
NoFilePlan == <<DictEntry(<<<<"name", "str", "clamp">>>>)>>

PlanReplies ==
    { Unparseable,
      Parsed([plan |-> FilePlan]),
      Parsed([tests |-> [filename |-> "test_clamp.py", content |-> TwoTests]]),
      Parsed([tests |-> [filename |-> "test_clamp.py", content |-> ""], plan |-> FilePlan]),
      Parsed([tests |-> [filename |-> "test_clamp.py", content |-> TwoTests], plan |-> NoFilePlan]),
      Parsed([tests |-> [filename |-> "test_clamp.py", content |-> TwoTests], plan |-> FilePlan]) }

RevisedPlan ==
    <<DictEntry(<<<<"file", "str", "./clamp.py">>, <<"action", "str", "modify">>,
                  <<"description", "str", "clamp to the closed range">>>>)>>

\* the replies to the re-plan after an accepted amendment
ReplanReplies ==
    { Unparseable,
      Parsed([plan |-> RevisedPlan]),
      Parsed([tests |-> [content |-> OneTest], plan |-> FilePlan]),
      Parsed([tests |-> [filename |-> "test_clamp.py", content |-> ""], plan |-> NoFilePlan]),
      Parsed([tests |-> [filename |-> "test_range.py", content |-> ThreeTests], plan |-> RevisedPlan]) }

\* a subprocess that completes with returncode 0
CommandDone == [kind |-> "completed", stdout |-> "", stderr |-> "", returncode |-> 0]

ImplReplies ==
    { [file_blocks |-> <<[path |-> "clamp.py", content |-> "def clamp(v): return v\n"]>>,
       cmd_blocks |-> <<"pip install pytest">>] }

Failed(output) == [passed |-> FALSE, output |-> output]

Passed == [passed |-> TRUE, output |-> "test_clamp.py::test_a PASSED\ntest_clamp.py::test_b PASSED\n"]

\* two runs with the same pattern and different failing names, and one with
\* another pattern and the failing names of the second
FailingOutputs ==
    { "test_clamp.py::test_a FAILED\n",
      "test_clamp.py::test_b FAILED\n",
      "test_clamp.py::test_a PASSED\ntest_clamp.py::test_b FAILED\n" }

TestResults == {Passed} \cup {Failed(o) : o \in FailingOutputs}

ClampFact == "Values must be clamped to [0,1]."

\* longer than DK_ADDITION_MAX once stripped
LongFact == " " \o Repeat("0123456789", 51) \o "\n"

DkReplies ==
    { Unparseable,
      Parsed([diagnosis |-> "gap", dk_addition |-> ClampFact, confidence |-> "low"]),
      Parsed([diagnosis |-> "gap", dk_addition |-> ClampFact]),
      Parsed([diagnosis |-> "none", dk_addition |-> "", confidence |-> "high"]),
      Parsed([diagnosis |-> "none", dk_addition |-> "  ", confidence |-> "high"]),
      Parsed([diagnosis |-> "gap", dk_addition |-> ClampFact, confidence |-> "high"]),
      Parsed([diagnosis |-> "gap", dk_addition |-> LongFact, confidence |-> "medium"]) }

AuditReplies ==
    { Unparseable,
      Parsed([tests_correct |-> TRUE, issues |-> <<>>]),
      Parsed([tests_correct |-> FALSE, issues |-> <<"test_a">>,
              tests |-> [filename |-> "test_clamp.py", content |-> ThreeTests]]),
      Parsed([tests_correct |-> FALSE, issues |-> <<"test_b">>,
              tests |-> [filename |-> "test_clamp.py", content |-> OneTest]]) }

ReviewReplies ==
    { Unparseable,
      Parsed([diagnosis |-> "off by one",
              plan |-> <<DictEntry(<<<<"code", "str", "def clamp(v): return min(v, 1)">>>>)>>]),
      Parsed([plan |-> <<>>]),
      Parsed([plan |-> <<StrEntry("rewrite the clamp")>>]) }

(***************************************************************************)
(* Specifications                                                          *)
(***************************************************************************)

\* the state of run() at `start`, with the task file drawn from tasks
CtlInit(tasks, start) ==
    /\ pc = start
    /\ exit_code = -1
    /\ iteration = 0
    /\ task \in tasks
    /\ task_file = task
    /\ task_at_start = task
    /\ plan = <<>>
    /\ test_filename = ""
    /\ test_content = ""
    /\ test_file = ""
    /\ original_test_count = 0
    /\ last_test_hash = NoValue
    /\ stuck_count = 0
    /\ last_failing_set = NoValue
    /\ failing_set_count = 0
    /\ effective_stuck = 0
    /\ last_impl_hash = NoValue
    /\ impl_stable_count = 0
    /\ last_diagnosis = ""
    /\ last_review_code = ""
    /\ test_result = [passed |-> FALSE, output |-> ""]
    /\ prompt = [kind |-> "none"]
    /\ file_blocks = <<>>
    /\ cmd_blocks = <<>>
    /\ plan_reply = Unparseable
    /\ dk_reply = Unparseable
    /\ dk_cap = 0
    /\ review_reply = NoValue
    /\ last_call = NoValue
    /\ trace = <<>>

Init ==
    /\ CtlInit(Tasks, "plan")
    /\ args = NoValue
    /\ ret = NoValue

\* ---- Spec: the controller against every reply and test outcome ----

\* the iteration counter of Spec stops at MaxIter
MaxIter == 6

Next ==
    \/ Plan(PlanReplies)
    \/ Implement(ImplReplies, MaxIter, FALSE)
    \/ RunCommands({CommandDone})
    \/ Test(TestResults)
    \/ DkPing(DkReplies)
    \/ Replan(ReplanReplies)
    \/ Audit(AuditReplies)
    \/ Review(ReviewReplies)

Spec == Init /\ [][Next]_vars

\* ---- SpecAmend: one DK ping decision, as a function of its inputs ----

\* the section is the last one and its body ends in blanks
TaskDKLast == "# Task\nclamp values\n\n## Domain Knowledge\n\nranges are closed  \n\n"

\* the body ends in blanks before the next heading
TaskDKSpaced ==
    "# Task\n\n## Domain Knowledge\nranges are closed \t\n\n\n## Constraints\n\n- stdlib only\n"

AmendTasks == {TaskWithDK, TaskEmptyDK, TaskNoDK, TaskDKLast, TaskDKSpaced}

AmendIterations == {5, 10}

AmendInit ==
    /\ CtlInit({""}, "idle")
    /\ args \in {Some(a) : a \in [reply : DkReplies, current_task : AmendTasks,
                                  n : AmendIterations]}
    /\ ret = NoValue

Amend ==
    /\ args # NoValue
    /\ ret = NoValue
    /\ ret' = Some(DkOutcome(args[1].reply, args[1].current_task, args[1].n))
    /\ UNCHANGED <<ctl_vars, args>>

SpecAmend == AmendInit /\ [][Amend]_vars

\* ---- SpecStalled: a run whose tests fail the same way in every iteration
\* and whose consultant always proposes a long addition ----

MaxIterStalled == 20

StalledNext ==
    \/ Plan({r \in PlanReplies : ~PlanRejected(r)})
    \/ Implement(ImplReplies, MaxIterStalled, FALSE)
    \/ RunCommands({CommandDone})
    \/ Test({Passed, Failed("test_clamp.py::test_a FAILED\n")})
    \/ DkPing({Parsed([diagnosis |-> "gap", dk_addition |-> LongFact, confidence |-> "medium"])})
    \/ Replan({Unparseable,
                Parsed([tests |-> [filename |-> "test_range.py", content |-> ThreeTests],
                        plan |-> RevisedPlan])})
    \/ Audit({Parsed([tests_correct |-> TRUE, issues |-> <<>>])})
    \/ Review({r \in ReviewReplies : "diagnosis" \in DOMAIN r.data})

SpecStalled == Init /\ [][StalledNext]_vars

\* ---- SpecLive: the controller with no bound on the number of iterations;
\* every call returns, so a step that can be taken eventually is ----

\* iteration and impl_stable_count are counted up to MaxIterLive
MaxIterLive == 5

\* the consultant's additions are accepted at most MaxAmendLive times
MaxAmendLive == 1

\* the number of Auto-DK lines in a task text
AmendCount(t) == Cardinality({k \in 0..(Len(t) - 1) : MatchAt(t, k, "[Auto-DK iteration ")})

LiveDkReplies ==
    {r \in DkReplies : \/ ~r.parse_ok
                       \/ ~DkAccepts(r.data)
                       \/ (AmendCount(task_file) < MaxAmendLive /\ r.data.dk_addition = ClampFact)}

\* the implementer writes the file and asks for no command
LiveImplReplies ==
    { [file_blocks |-> <<[path |-> "clamp.py", content |-> "def clamp(v): return v\n"]>>,
       cmd_blocks |-> <<>>] }

LiveNext ==
    \/ Plan(PlanReplies)
    \/ Implement(LiveImplReplies, MaxIterLive, TRUE)
    \/ RunCommands({CommandDone})
    \/ Test(TestResults)
    \/ DkPing(LiveDkReplies)
    \/ Replan({r \in ReplanReplies : "tests" \notin DOMAIN r.data})
    \/ Audit(AuditReplies)
    \/ Review(ReviewReplies)

SpecLive == Init /\ [][LiveNext]_vars /\ WF_vars(LiveNext)

\* ---- SpecNormalize: normalize_plan on raw plans of a few entries ----

MaxPlanLen == 2

\* raw plan entries as models write them: well-formed, with other key names,
\* with one or two workspace prefixes, without a usable file, as a bare
\* string, as a number
RawEntries ==
    { DictEntry(<<<<"file", "str", "clamp.py">>, <<"action", "str", "create">>>>),
      DictEntry(<<<<"filename", "str", "workspace/clamp.py">>, <<"type", "str", "function">>>>),
      DictEntry(<<<<"file", "str", "">>, <<"action", "str", "modify">>>>),
      DictEntry(<<<<"file", "str", "./">>>>),
      DictEntry(<<<<"file", "str", "./workspace/clamp.py">>, <<"action", "str", "modify">>>>),
      DictEntry(<<<<"path", "str", "src/clamp.py">>, <<"action", "str", "delete">>>>),
      DictEntry(<<<<"description", "str", "tighten the bounds">>>>),
      StrEntry("edit src/clamp.py first"),
      [kind |-> "int", items |-> <<>>, text |-> "7"] }

RECURSIVE RawPlans(_)
\* the raw plans of at most n entries
RawPlans(n) ==
    IF n = 0 THEN {<<>>}
    ELSE RawPlans(n - 1) \cup {Append(p, e) : p \in {q \in RawPlans(n - 1) : Len(q) = n - 1},
                                              e \in RawEntries}

FallbackFiles == {"", "clamp.py"}

NormalizeInit ==
    /\ CtlInit({""}, "idle")
    /\ args \in {Some(a) : a \in [plan : RawPlans(MaxPlanLen), fallback_file : FallbackFiles]}
    /\ ret = NoValue

Normalize ==
    /\ args # NoValue
    /\ ret = NoValue
    /\ ret' = Some(normalize_plan(args[1].plan, args[1].fallback_file))
    /\ UNCHANGED <<ctl_vars, args>>

SpecNormalize == NormalizeInit /\ [][Normalize]_vars

\* ---- SpecSandbox: sandbox_check on the commands an implementer may emit ----

\* commands that pass, that write outside the workspace, that write next to
\* it, that use sudo, and that start a foreground process
Commands ==
    { "echo hi", "python script.py", "cat file", "ls", "echo x > /dev/null",
      "echo x >/dev/null", "echo x > NUL", "pytest -q 2>&1",
      "python -m pytest test_clamp.py -v --tb=short 2>&1", "pip install pytest",
      "echo x > out.txt", "echo x > /ws/a.txt", "mkdir -p build/obj", "touch ./a/../b.txt",
      "wget http://h/f", "echo x > /etc/passwd", "echo x >> ../out.txt", "rm -rf /",
      "cp a.txt /tmp/a.txt", "echo x | tee /etc/hosts", "tee -a ../log",
      "echo x > logs/app.log", "curl -o /tmp/f http://h/f", "wget http://h/f -O /tmp/f",
      "mv a.txt ../b.txt", "ln -s /usr/bin/python3 py", "echo x > ../ws-old/out.txt",
      "rm -rf /ws2/data", "cp key.pem /ws.bak/key.pem", "rmdir /etc/cron.d",
      "dd if=a.img of=/dev/sda", "install -m 755 tool /usr/local/bin/tool",
      "sudo rm -rf /", "sudo apt install gcc", "sudo /usr/bin/apt-get update",
      "sudo systemctl restart nginx", "sudo vim /etc/hosts", "sudo apt install vim",
      "sudo kill 1 && rm -rf /etc/x", "sudo apt install x > /var/log/apt.log",
      "sudo service tcp restart -o /etc/x", "sudo bash -c \"rm -rf /\"",
      "sudo kill 1; rm -rf /ws2/x", "sudo kill 1; rm -rf build",
      "sudo dpkg -i pkg.deb && cp /etc/a /etc/b", "sudo", "sudo  ss -tlnp",
      "tail -f app.log", "watch ls", "python -m http.server", "npm run dev", "npm start",
      "node server.js --watch", "flask run", "uvicorn app:app", "gunicorn app:app",
      "jupyter notebook", "less a.txt", "echo more", "vi a.txt", "vim a.txt", "nano a.txt",
      "top -b -n 1", "htop", "tail -f /var/log/syslog > /etc/out", "echo top > /etc/motd",
      " ls ", "cat vimrc" }

\* /ws holds the symbolic link logs; /srv/ws holds none
Workspaces == {"/ws", "/srv/ws"}

SandboxInit ==
    /\ CtlInit({""}, "idle")
    /\ args \in {Some(a) : a \in [cmd : Commands, workspace : Workspaces]}
    /\ ret = NoValue

SandboxCheck ==
    /\ args # NoValue
    /\ ret = NoValue
    /\ ret' = Some(sandbox_check(args[1].cmd, args[1].workspace))
    /\ UNCHANGED <<ctl_vars, args>>

SpecSandbox == SandboxInit /\ [][SandboxCheck]_vars

\* ---- SpecExecute: execute_command on the same commands, against every
\* outcome of the subprocess ----

\* what subprocess.run does: it completes, runs out of time or raises
SubprocessOutcomes ==
    { [kind |-> "completed", stdout |-> "2 passed\n", stderr |-> "", returncode |-> 0],
      [kind |-> "completed", stdout |-> "", stderr |-> "No such file or directory\n",
       returncode |-> 1],
      [kind |-> "timeout", stdout |-> "", stderr |-> "", returncode |-> 0],
      [kind |-> "error", stdout |-> "", stderr |-> "[Errno 2] No such file or directory: '/ws'",
       returncode |-> 0] }

ExecuteInit ==
    /\ CtlInit({""}, "idle")
    /\ args \in {Some(a) : a \in [cmd : Commands, workspace : Workspaces,
                                  outcome : SubprocessOutcomes]}
    /\ ret = NoValue

\* ret is the dict returned and whether subprocess.run was called
ExecuteCommand ==
    /\ args # NoValue
    /\ ret = NoValue
    /\ ret' = Some(execute_command(args[1].cmd, args[1].workspace, args[1].outcome))
    /\ UNCHANGED <<ctl_vars, args>>

SpecExecute == ExecuteInit /\ [][ExecuteCommand]_vars

\* ---- SpecFileBlocks: parse_file_blocks on rendered file blocks ----

MaxBlocks == 2

BlockPaths == {"clamp.py", "src/util.py"}

\* contents without the terminator line: plain, empty, starting with a blank
\* line, starting with a whitespace-only line, starting with an indented line
BlockContents ==
    {"x = 1\n", "", "\nx = 1\n", "  \n\tpass\n", "    return v\n"}

RECURSIVE BlockLists(_)
\* the lists of at most n {path, content} pairs
BlockLists(n) ==
    IF n = 0 THEN {<<>>}
    ELSE BlockLists(n - 1)
             \cup {Append(l, b) : l \in {m \in BlockLists(n - 1) : Len(m) = n - 1},
                                  b \in [path : BlockPaths, content : BlockContents]}

RECURSIVE RenderFileBlocks(_)
\* the blocks in the grammar ===FILE: path=== ... ===END FILE===
RenderFileBlocks(blocks) ==
    IF blocks = <<>> THEN ""
    ELSE "===FILE: " \o Head(blocks).path \o "===\n" \o Head(blocks).content
             \o "===END FILE===" \o RenderFileBlocks(Tail(blocks))

FileBlocksInit ==
    /\ CtlInit({""}, "idle")
    /\ args \in {Some([blocks |-> b, text |-> RenderFileBlocks(b)]) : b \in BlockLists(MaxBlocks)}
    /\ ret = NoValue

ParseFileBlocks ==
    /\ args # NoValue
    /\ ret = NoValue
    /\ ret' = Some(parse_file_blocks(args[1].text))
    /\ UNCHANGED <<ctl_vars, args>>

SpecFileBlocks == FileBlocksInit /\ [][ParseFileBlocks]_vars

\* ---- SpecCallModel: one call_model call against every outcome of each
\* request ----

CallArgs ==
    { [model_name |-> "devstral", profile |-> "planner"],
      [model_name |-> "devstral", profile |-> "implementer"],
      [model_name |-> "ministral", profile |-> "consultant"],
      [model_name |-> "ministral", profile |-> "planner"],
      [model_name |-> "devstral", profile |-> "conservative"],
      [model_name |-> "devstral", profile |-> "default"] }

\* how requests.post and the reading of the response can end
PostOutcomes ==
    { [kind |-> "ok", content |-> "{}"],
      [kind |-> "ok", content |-> "<think>hm</think>{}"],
      [kind |-> "ConnectionError", content |-> ""],
      [kind |-> "Timeout", content |-> ""],
      [kind |-> "HTTPError", content |-> ""],
      [kind |-> "KeyError", content |-> ""] }

CallModelInit ==
    /\ CtlInit({""}, "call_model")
    /\ args \in {Some(a) : a \in CallArgs}
    /\ ret = Some(CallStart)

\* one pass of `for attempt in range(4)`; fatal() ends the process
CallModelAttempt ==
    /\ pc = "call_model"
    /\ ret[1].status = "running"
    /\ ret[1].attempt < MAX_ATTEMPTS
    /\ \E outcome \in PostOutcomes :
        /\ ret' = Some(CallAttempt(ret[1], outcome))
        /\ pc' = IF ret'[1].status = "fatal" THEN "FATAL_MODEL_CALL"
                 ELSE IF ret'[1].status = "returned" THEN "called" ELSE pc
        /\ exit_code' = IF ret'[1].status = "fatal" THEN FatalExit ELSE exit_code
    /\ UNCHANGED <<iteration, task, task_file, task_at_start, plan, test_filename,
                   test_content, test_file, original_test_count, last_test_hash, stuck_count,
                   last_failing_set, failing_set_count, effective_stuck, last_impl_hash,
                   impl_stable_count, last_diagnosis, last_review_code, test_result,
                   prompt, file_blocks, cmd_blocks, plan_reply, dk_reply, dk_cap,
                   review_reply, last_call, trace, args>>

SpecCallModel == CallModelInit /\ [][CallModelAttempt]_vars

\* ---- SpecOutputs: what each call site hands to its parser, for every
\* assignment of model identifiers to the three roles ----

ModelAssignments ==
    { [planner_model |-> "devstral", implementer_model |-> "devstral", consultant_model |-> "ministral"],
      [planner_model |-> "devstral", implementer_model |-> "qwen", consultant_model |-> "ministral"],
      [planner_model |-> "ministral", implementer_model |-> "devstral", consultant_model |-> "ministral"],
      [planner_model |-> "devstral", implementer_model |-> "ministral", consultant_model |-> "ministral"],
      [planner_model |-> "ministral", implementer_model |-> "ministral", consultant_model |-> "ministral"] }

Phases == {"plan", "implement", "dk_ping", "replan", "audit", "review"}

\* outputs with no block, one block, two blocks, an unclosed block, and
\* blanks at the ends
ModelOutputs ==
    { "{\"plan\": []}",
      "<think>two tests</think>\n{\"plan\": []}",
      "<think>a</think>{\"diagnosis\": <think>b\nc</think>\"gap\"}\n",
      "{\"diagnosis\": \"<think>\"}",
      "  {\"tests_correct\": true}\n" }

OutputsInit ==
    /\ CtlInit({""}, "idle")
    /\ args \in {Some(a) : a \in [phase : Phases, CONFIG : ModelAssignments,
                                  effective : {1, STUCK_THRESHOLD}, output : ModelOutputs]}
    /\ ret = NoValue

HandleOutput ==
    /\ args # NoValue
    /\ ret = NoValue
    /\ ret' = Some(HandledOutput(args[1].phase, args[1].CONFIG, args[1].effective,
                                 args[1].output))
    /\ UNCHANGED <<ctl_vars, args>>

SpecOutputs == OutputsInit /\ [][HandleOutput]_vars

\* ---- SpecBlocked: runs whose implementer asks for commands that the
\* sandbox blocks ----

MaxIterBlocked == 6

\* a foreground command; an install followed by a write outside the workspace
BlockedImplReplies ==
    { [file_blocks |-> <<[path |-> "clamp.py", content |-> "def clamp(v): return v\n"]>>,
       cmd_blocks |-> <<"npm start">>],
      [file_blocks |-> <<[path |-> "clamp.py", content |-> "def clamp(v): return v\n"]>>,
       cmd_blocks |-> <<"pip install pytest", "rm -rf /etc/clamp">>],
      [file_blocks |-> <<[path |-> "clamp.py", content |-> "def clamp(v): return v\n"]>>,
       cmd_blocks |-> <<"npm start", "pip install pytest">>] }

BlockedNext ==
    \/ Plan({r \in PlanReplies : ~PlanRejected(r)})
    \/ Implement(BlockedImplReplies, MaxIterBlocked, FALSE)
    \/ RunCommands(SubprocessOutcomes)
    \/ Test({Passed, Failed("test_clamp.py::test_a FAILED\n"),
             Failed("test_clamp.py::test_b FAILED\n")})
    \/ DkPing({Unparseable,
               Parsed([diagnosis |-> "gap", dk_addition |-> ClampFact, confidence |-> "high"])})
    \/ Replan({Unparseable})
    \/ Audit({Parsed([tests_correct |-> TRUE, issues |-> <<>>])})
    \/ Review({r \in ReviewReplies : "diagnosis" \in DOMAIN r.data})

SpecBlocked == Init /\ [][BlockedNext]_vars

\* ---- SpecAssemble: the four assemblers against budgets below and above the
\* size of the prompt ----

\* budgets: smaller than the reserve, just above it, and the two of CONFIG
ContextBudgets == {400, 540, 600, 16000, 61440}

AssemblyTasks == {TaskNoDK, TaskNoDK \o Repeat("- clamp to the closed range\n", 60),
                  TaskNoDK \o Repeat("- clamp to the closed range\n", 75)}

\* a PHILOSOPHY.md whose estimate alone lies between the budget of the planner
\* less the reserve and that budget
LongPhilosophy == Repeat(Repeat("Prefer the simplest design that passes the tests.\n", 30), 31)

AssemblyInputs ==
    [assembler : {"plan", "implement", "test_audit", "review"},
     philosophy : {"Be precise.", LongPhilosophy},
     task : AssemblyTasks,
     second : {TwoTests},
     third : {"", "test_clamp.py::test_a FAILED\n"}]

AssembleInit ==
    /\ CtlInit({""}, "idle")
    /\ args \in {Some([input |-> a, max_context_tokens |-> b]) :
                     a \in AssemblyInputs, b \in ContextBudgets}
    /\ ret = NoValue

Assemble ==
    /\ args # NoValue
    /\ ret = NoValue
    /\ ret' = Some(AssembleContext(args[1].input, args[1].max_context_tokens))
    /\ UNCHANGED <<ctl_vars, args>>

SpecAssemble == AssembleInit /\ [][Assemble]_vars

\* ---- SpecCount: count_test_functions before and after a test function is
\* appended ----

MaxLines == 2

\* lines with a test at the margin, an indented test, no test, and cut-off
\* headers
TestLines == {"def test_a():", "    def test_b():", "x = 1", "def tes", "def test_", ""}

RECURSIVE LineLists(_)
LineLists(n) ==
    IF n = 0 THEN {<<>>}
    ELSE LineLists(n - 1)
             \cup {Append(l, x) : l \in {m \in LineLists(n - 1) : Len(m) = n - 1},
                                  x \in TestLines}

\* the texts of at most MaxLines lines, the last line terminated or not
TestTexts ==
    {JoinTexts(l, "\n") \o e : l \in LineLists(MaxLines), e \in {"", "\n"}}

\* the line as appended: to a text that ends its last line, or after a newline
AppendedLines == {"def test_x():\n", "\ndef test_x():", "\ndef test_x():\n"}

CountInit ==
    /\ CtlInit({""}, "idle")
    /\ args \in {Some(a) : a \in [content : TestTexts, line : AppendedLines]}
    /\ ret = NoValue

CountTests ==
    /\ args # NoValue
    /\ ret = NoValue
    /\ ret' = Some([before |-> count_test_functions(args[1].content),
                    after |-> count_test_functions(args[1].content \o args[1].line)])
    /\ UNCHANGED <<ctl_vars, args>>

SpecCount == CountInit /\ [][CountTests]_vars

\* ---- SpecRunTests: run_tests on the test file names a plan may give, with
\* the file present or absent, against every outcome of the subprocess ----

\* names of the test file: test-watch.py holds the word of a foreground
\* pattern, /tmp/test_clamp.py is absolute
TestFilenames == {"test_clamp.py", "tests/test_clamp.py", "test-watch.py", "/tmp/test_clamp.py"}

\* pytest's returncodes: 0 passed, 1 some test failed, 5 no test collected
PytestOutcomes ==
    SubprocessOutcomes \cup
    { [kind |-> "completed", stdout |-> "no tests ran\n", stderr |-> "", returncode |-> 5] }

RunTestsInit ==
    /\ CtlInit({""}, "idle")
    /\ args \in {Some(a) : a \in [workspace : Workspaces, test_filename : TestFilenames,
                                  exists : BOOLEAN, outcome : PytestOutcomes]}
    /\ ret = NoValue

RunTests ==
    /\ args # NoValue
    /\ ret = NoValue
    /\ ret' = Some(run_tests(args[1].workspace, args[1].test_filename, args[1].exists,
                             args[1].outcome))
    /\ UNCHANGED <<ctl_vars, args>>

SpecRunTests == RunTestsInit /\ [][RunTests]_vars

\* ---- SpecParse: parse_json_output on model outputs: a JSON document or a
\* refusal, bare, fenced or inside prose ----

LongRefusal == Repeat("I cannot produce a plan for this task. ", 14)

OutputBodies ==
    { ObjectDoc, ArrayDoc, "\"ok\"", "42", "null", "true", "",
      "I cannot help with that.", ObjectDoc \o " and " \o EntryDoc, LongRefusal }

Wrapped(body) ==
    { body,
      "  " \o body \o "\n",
      Fence \o "json\n" \o body \o "\n" \o Fence,
      Fence \o "\n" \o body \o "\n" \o Fence \o "  \n",
      "Here is the plan:\n" \o body,
      Fence \o "json " \o body \o "\n" \o Fence \o " Done." }

ParseInit ==
    /\ CtlInit({""}, "idle")
    /\ args \in {Some([text |-> t]) : t \in UNION {Wrapped(b) : b \in OutputBodies}}
    /\ ret = NoValue

ParseJsonOutput ==
    /\ args # NoValue
    /\ ret = NoValue
    /\ ret' = Some(parse_json_output(args[1].text))
    /\ UNCHANGED <<ctl_vars, args>>

SpecParse == ParseInit /\ [][ParseJsonOutput]_vars

\* ---- SpecClients: the model clients of isomira.py and of isomoira.py
\* against the same outcomes of the successive requests ----

AttemptOutcomes ==
    { [kind |-> "ok", content |-> "{}"],
      [kind |-> "ConnectionError", content |-> ""],
      [kind |-> "Timeout", content |-> ""],
      [kind |-> "HTTPError", content |-> ""] }

ClientsInit ==
    /\ CtlInit({""}, "idle")
    /\ args \in {Some([outcomes |-> o]) : o \in [1..MAX_ATTEMPTS -> AttemptOutcomes]}
    /\ ret = NoValue

\* both clients are called; the k-th request of either ends as outcomes[k]
CallBoth ==
    /\ args # NoValue
    /\ ret = NoValue
    /\ ret' = Some([isomira |-> CallLoop(CallStart, args[1].outcomes),
                    isomoira |-> CallOnce(CallStart, args[1].outcomes[1])])
    /\ UNCHANGED <<ctl_vars, args>>

SpecClients == ClientsInit /\ [][CallBoth]_vars

\* ---- SpecWrites: the file each write site of run() opens, for the path
\* strings a model may supply ----

ModelPaths ==
    { "clamp.py", "src/util.py", "test_clamp.py", "tests/../test_clamp.py",
      "../outside.py", "src/../../escape.py", "/etc/cron.d/job" }

WritesInit ==
    /\ CtlInit({""}, "idle")
    /\ args \in {Some(a) : a \in [site : WriteSites, workspace : Workspaces, path : ModelPaths]}
    /\ ret = NoValue

\* (workspace / path).write_text(content); no site checks the path first
WriteModelFile ==
    /\ args # NoValue
    /\ ret = NoValue
    /\ ret' = Some(WrittenFile(args[1].workspace, args[1].path))
    /\ UNCHANGED <<ctl_vars, args>>

SpecWrites == WritesInit /\ [][WriteModelFile]_vars

\* ---- SpecOverwrite: runs whose implementer also emits a file block for the
\* test file ----

MaxIterOverwrite == 6

\* the test file with its assertions removed
WeakTest == "def test_a():\n    assert True\n"

OverwriteImplReplies ==
    { [file_blocks |-> <<[path |-> "clamp.py", content |-> "def clamp(v): return v\n"]>>,
       cmd_blocks |-> <<>>],
      [file_blocks |-> <<[path |-> "clamp.py", content |-> "def clamp(v): return v\n"],
                         [path |-> "test_clamp.py", content |-> WeakTest]>>,
       cmd_blocks |-> <<>>],
      [file_blocks |-> <<[path |-> "./test_clamp.py", content |-> ""]>>,
       cmd_blocks |-> <<>>] }

OverwriteNext ==
    \/ Plan({r \in PlanReplies : ~PlanRejected(r)})
    \/ Implement(OverwriteImplReplies, MaxIterOverwrite, FALSE)
    \/ RunCommands({CommandDone})
    \/ Test({Passed, Failed("test_clamp.py::test_a FAILED\n")})
    \/ DkPing({Unparseable,
               Parsed([diagnosis |-> "gap", dk_addition |-> ClampFact, confidence |-> "high"])})
    \/ Replan({Unparseable})
    \/ Audit({Parsed([tests_correct |-> TRUE, issues |-> <<>>]),
              Parsed([tests_correct |-> FALSE, issues |-> <<"test_a">>,
                      tests |-> [filename |-> "test_clamp.py", content |-> ThreeTests]])})
    \/ Review({r \in ReviewReplies : "diagnosis" \in DOMAIN r.data})

SpecOverwrite == Init /\ [][OverwriteNext]_vars

(***************************************************************************)
(* Properties                                                              *)
(***************************************************************************)

\* C1: the run is in SUCCESS exactly when its run_tests call returned passed;
\* that call is then the last operation of the run and no step follows it.
C1_SuccessOnlyAfterPassingTest ==
    (pc = "SUCCESS" \/ test_result.passed) =>
        /\ pc = "SUCCESS"
        /\ test_result.passed
        /\ trace # <<>>
        /\ trace[Len(trace)].op = "run_tests"
        /\ ~ENABLED Next

C1_Witness == pc = "SUCCESS" /\ test_result.passed /\ iteration >= 2

\* C2 as stated: every run eventually reaches a terminal state.
C2_EveryRunTerminates == <>(pc \in TerminalStates)

\* C2, amended: the loop has no bound of its own.  What is bounded is a stall:
\* the effective stuck score never exceeds the DK ping threshold, and every DK
\* ping ends in a halt or in a re-plan with both stall counters back at 0.
C2_StallIsBounded ==
    /\ [](effective_stuck <= DK_PING_THRESHOLD)
    /\ (pc = "dk_ping") ~> (\/ pc \in HaltStates
                            \/ (pc = "replan" /\ stuck_count = 0 /\ failing_set_count = 0))

C2_Witness ==
    /\ pc = "implement"
    /\ iteration = MaxIterLive
    /\ AmendCount(task) = MaxAmendLive
    /\ effective_stuck = 1

\* C3 as stated: the task text never grows past its length at the start of
\* the run plus 2000.
C3_TaskWithinRunCap ==
    /\ Len(task) <= Len(task_at_start) + 2000
    /\ Len(task_file) <= Len(task_at_start) + 2000

\* the amended task of an accepted DK ping decision
C4_Accepted == ret # NoValue /\ ret[1].to = "replan"

C5_LineInsideSection ==
    C4_Accepted =>
        LET pre == args[1].current_task
            post == ret[1].task
            tag == Find(post, DkTag(args[1].n))
            heading == Find(post, DkHeading)
            body == heading + Len(DkHeading)
            next_heading == Find(From(post, body), "\n## ")
        IN  /\ tag > 0
            /\ CharAt(post, tag - 1) = "\n"
            /\ heading >= 0
            /\ heading < tag
            /\ IF Contains(pre, DkHeading)
               THEN next_heading < 0 \/ tag < body + next_heading
               ELSE /\ Upto(post, Len(pre)) = pre
                    /\ heading >= Len(pre)

\* the text an accepted amendment puts after its tag, up to the end of the line
C6_Inserted ==
    LET post == ret[1].task
        after == From(post, Find(post, DkTag(args[1].n)) + Len(DkTag(args[1].n)))
    IN  Upto(after, Find(after, "\n"))

\* C6 as stated: an amendment is written only for confidence high or medium
\* and a non-empty dk_addition, and the text after the tag is non-empty and
\* at most 500 characters long.
C6_AdditionNonEmptyAndShort ==
    C4_Accepted =>
        /\ args[1].reply.parse_ok
        /\ Get(args[1].reply.data, "confidence", "low") \in {"high", "medium"}
        /\ Get(args[1].reply.data, "dk_addition", "") # ""
        /\ C6_Inserted # ""
        /\ Len(C6_Inserted) <= 500

\* the DK ping of a run whose every test run reported the same failing names,
\* answered with a high-confidence, non-empty addition
C7_Case ==
    /\ pc = "dk_ping"
    /\ failing_set_count = iteration
    /\ dk_reply'.parse_ok
    /\ Get(dk_reply'.data, "confidence", "low") = "high"
    /\ Get(dk_reply'.data, "dk_addition", "") # ""

C7_ResetAndReplan ==
    /\ stuck_count' = 0
    /\ failing_set_count' = 0
    /\ last_test_hash' = NoValue
    /\ last_failing_set' = NoValue
    /\ pc' = "replan"

\* C7 as stated: the ping comes after 5 iterations, the task gains a line
\* tagged [Auto-DK iteration 6], the stall state is reset and Phase 2 runs again.
C7_TaggedIterationSix ==
    [][C7_Case => /\ iteration = 5
                  /\ Contains(task', "\n[Auto-DK iteration 6] ")
                  /\ C7_ResetAndReplan]_vars

\* C7, amended: the ping comes in iteration 5, after its test run; the task,
\* in memory and on disk, gains a line tagged [Auto-DK iteration 5] after the
\* Domain Knowledge heading; the stall state is reset and Phase 2 runs again.
C7_TaggedIterationFive ==
    [][C7_Case => /\ iteration = 5
                  /\ iteration' = 5
                  /\ ~Contains(task, "\n[Auto-DK iteration 5] ")
                  /\ Contains(task', "\n[Auto-DK iteration 5] ")
                  /\ Find(task', DkHeading) >= 0
                  /\ Find(task', DkHeading) < Find(task', "\n[Auto-DK iteration 5] ")
                  /\ task_file' = task'
                  /\ C7_ResetAndReplan]_vars

C7_Witness ==
    /\ pc = "replan"
    /\ iteration = 5
    /\ dk_reply.parse_ok
    /\ Get(dk_reply.data, "confidence", "") = "high"
    /\ Contains(task, "\n[Auto-DK iteration 5] " \o ClampFact \o "\n")
    /\ test_result.output = "test_clamp.py::test_a FAILED\n"
    /\ stuck_count = 0
    /\ last_failing_set = NoValue

\* a consultant reply that is not accepted: unparseable, confidence low (or
\* absent), or dk_addition empty
C8_NotAccepted(reply) ==
    \/ ~reply.parse_ok
    \/ Get(reply.data, "confidence", "low") = "low"
    \/ Get(reply.data, "dk_addition", "") = ""

\* C8: a DK ping that is not accepted halts the run without success and
\* leaves the task, in memory and on disk, as it was; a ping that does not
\* lead to the re-plan is such a halt; and no step follows a halt.
C8_RejectedPingHalts ==
    [][/\ pc \notin HaltStates
       /\ (pc = "dk_ping" /\ C8_NotAccepted(dk_reply')) => pc' \in HaltStates
       /\ (pc = "dk_ping" /\ pc' # "replan") =>
              /\ pc' \in HaltStates
              /\ task' = task
              /\ task_file' = task_file]_vars

C8_Witness ==
    /\ pc = "HALT_DK_LOW_CONFIDENCE"
    /\ dk_reply.parse_ok
    /\ Get(dk_reply.data, "confidence", "") = "low"
    /\ task = task_at_start
    /\ task_file = task_at_start

\* C9 as stated: the exit code is 0 only in SUCCESS, and every halt and every
\* fatal state ends the process with exit code 1.
C9_ExitCodes ==
    /\ exit_code = 0 => pc = "SUCCESS"
    /\ pc \in HaltStates \cup FatalStates => exit_code = 1

\* a plan reply that is unparseable, lacks the tests or the plan key, has
\* empty test content or normalises to no entry
C10_BadPlanReply(reply) ==
    \/ ~reply.parse_ok
    \/ "tests" \notin DOMAIN reply.data
    \/ "plan" \notin DOMAIN reply.data
    \/ Get(reply.data.tests, "content", "") = ""
    \/ normalize_plan(reply.data.plan, "") = <<>>

C11_Offered(reply) ==
    /\ reply.parse_ok
    /\ "tests" \in DOMAIN reply.data
    /\ DOMAIN reply.data.tests # {}

\* the number of test functions of the replacement the audit reply carries
C11_OfferedCount(reply) == count_test_functions(Get(reply.data.tests, "content", ""))

\* C11: an audit step writes a replacement test block only if the reply says
\* tests_correct is false and the block has at least original_test_count test
\* functions; a block with fewer is rejected and leaves the test content,
\* test_filename and original_test_count as they were; and no step of the run
\* decreases original_test_count.
C11_ReplacementNeverLosesTests ==
    [][/\ original_test_count' >= original_test_count
       /\ pc = "audit" =>
              LET r == review_reply'[1]
                  written == pc' # "review"
              IN  /\ written =>
                         /\ C11_Offered(r)
                         /\ ~Get(r.data, "tests_correct", TRUE)
                         /\ C11_OfferedCount(r) >= original_test_count
                         /\ test_content' = Get(r.data.tests, "content", "")
                         /\ original_test_count' = C11_OfferedCount(r)
                  /\ (C11_Offered(r) /\ C11_OfferedCount(r) < original_test_count) => ~written
                  /\ ~written => /\ test_content' = test_content
                                 /\ test_filename' = test_filename
                                 /\ original_test_count' = original_test_count]_vars

\* a replacement with one test function was rejected after one with three was written
C11_Witness ==
    /\ pc = "review"
    /\ review_reply # NoValue
    /\ C11_Offered(review_reply[1])
    /\ ~Get(review_reply[1].data, "tests_correct", TRUE)
    /\ C11_OfferedCount(review_reply[1]) = 1
    /\ original_test_count = 3
    /\ test_content = ThreeTests

\* the position of an operation in the order of one iteration: file-block
\* writes, command executions, the test run, then the audit call
C12_Rank(o) ==
    CASE o.phase = "implement" /\ o.op = "write_file" -> 1
      [] o.op = "execute_command" -> 2
      [] o.op = "run_tests" -> 3
      [] o.phase = "audit" -> 4
      [] OTHER -> 0

\* the operations of the current iteration are recorded in that order, and
\* once the test run is due every file block has been written and every
\* command block executed
C12_OrderInIteration ==
    /\ \A i, j \in 1..Len(trace) :
           (i < j /\ C12_Rank(trace[i]) > 0 /\ C12_Rank(trace[j]) > 0)
               => C12_Rank(trace[i]) <= C12_Rank(trace[j])
    /\ Cardinality({i \in 1..Len(trace) : trace[i].op = "run_tests"}) <= 1
    /\ pc \in {"test", "audit", "dk_ping", "SUCCESS"} =>
           /\ Cardinality({i \in 1..Len(trace) : C12_Rank(trace[i]) = 1}) = Len(file_blocks)
           /\ Cardinality({i \in 1..Len(trace) : C12_Rank(trace[i]) = 2}) = Len(cmd_blocks)
    /\ pc \in {"audit", "dk_ping", "SUCCESS"} => trace[Len(trace)].op = "run_tests"

\* C12: within an iteration all file-block writes come before any command
\* execution and all command executions before the test run; the audit runs
\* only right after a failing test run for which no DK ping is due, the review
\* only right after the audit; and an iteration whose DK ping fires ends in a
\* halt or, through the re-plan, in the next iteration without audit or review.
C12_PhaseOrder ==
    /\ []C12_OrderInIteration
    /\ [][/\ pc' = "audit" => /\ pc = "test"
                              /\ ~test_result'.passed
                              /\ effective_stuck' < DK_PING_THRESHOLD
          /\ pc' = "review" => /\ pc = "audit"
                               /\ ~test_result.passed
                               /\ C12_Rank(trace'[Len(trace')]) = 4
          /\ pc' = "dk_ping" => pc = "test" /\ ~test_result'.passed
          /\ pc = "dk_ping" => pc' \in HaltStates \cup {"replan"}
          /\ pc = "replan" => pc' = "implement"
          /\ pc \in {"dk_ping", "replan"} => iteration' = iteration
          /\ pc = "implement" => iteration' = iteration + 1]_vars

\* a review is due in an iteration that wrote its file block, ran its command,
\* ran the tests and audited them, after an earlier iteration's DK ping
C12_Witness ==
    /\ pc = "review"
    /\ iteration > DK_PING_THRESHOLD
    /\ Len(trace) = 5
    /\ trace[2].op = "write_file"
    /\ trace[3].op = "execute_command"
    /\ trace[4].op = "run_tests"
    /\ trace[5].phase = "audit"

\* plan, diagnosis, review code and tests are as they were before the step
C13_Retained ==
    /\ plan' = plan
    /\ last_diagnosis' = last_diagnosis
    /\ last_review_code' = last_review_code
    /\ test_content' = test_content
    /\ test_filename' = test_filename
    /\ original_test_count' = original_test_count
    /\ exit_code' = exit_code

C14_FileAndActionWellFormed ==
    ret # NoValue =>
        \A i \in 1..Len(ret[1]) :
            LET out == ret[1][i]
            IN  /\ DictHas(out, "file")
                /\ DictItem(out, "file")[2] = "str"
                /\ DictItem(out, "file")[3] # ""
                /\ DictHas(out, "action")
                /\ DictItem(out, "action")[2] = "str"
                /\ DictItem(out, "action")[3] \in {"create", "modify"}

\* the target resolves to the workspace directory or to a path below it
C15_ResolvesInside(target, workspace) ==
    LET r == Resolved(target, workspace)
        w == Resolved("", workspace)
    IN  Len(r) >= Len(w) /\ SubSeq(r, 1, Len(w)) = w

\* the write targets of the command that resolve outside the workspace and
\* are not /dev/null, NUL or nul
C15_OutsideTargets(cmd, workspace) ==
    LET targets == _resolve_write_targets(cmd)
    IN  {i \in 1..Len(targets) :
            /\ Strip(targets[i]) \notin {"/dev/null", "NUL", "nul"}
            /\ ~C15_ResolvesInside(targets[i], workspace)}

\* C15 as stated: a command that does not begin with sudo, holds a write
\* operator or command and has a write target that resolves outside the
\* workspace directory is blocked.
C15_OutsideWriteBlocked ==
    (/\ ret # NoValue
     /\ ~MatchAt(Strip(args[1].cmd), 0, "sudo")
     /\ WriteIndicated(Strip(args[1].cmd))
     /\ C15_OutsideTargets(Strip(args[1].cmd), args[1].workspace) # {})
        => ret[1] # None

\* the inner command of a sudo command
C16_Inner(stripped) == From(stripped, Find(stripped, Basename(SudoMatch(stripped)[1])))

\* C16 as stated, for the commands that pass the foreground gate: `sudo <sub>`
\* is blocked when the basename of <sub> is not in the allowlist; when it is,
\* the command is blocked if and only if the inner command holds one of
\* `rm `, `mv `, `cp `, `chmod `, `chown ` and has a write target that resolves
\* outside the workspace.
C16_SudoBlockedIff ==
    (/\ ret # NoValue
     /\ SudoMatch(Strip(args[1].cmd)) # NoValue
     /\ ForegroundGate(Strip(args[1].cmd)) = None)
        => LET stripped == Strip(args[1].cmd)
           IN  IF Basename(SudoMatch(stripped)[1]) \notin SUDO_ALLOWLIST
               THEN ret[1] # None
               ELSE ret[1] # None <=>
                        /\ \E op \in SudoWriteOps : Contains(C16_Inner(stripped), op)
                        /\ C15_OutsideTargets(C16_Inner(stripped), args[1].workspace) # {}

\* the foreground patterns found in the command
C17_Found(cmd) ==
    {i \in 1..Len(FOREGROUND_PATTERNS) : ForegroundSearch(FOREGROUND_PATTERNS[i], Strip(cmd))}

\* C17: the foreground gate comes first: a command in which a foreground
\* pattern is found is blocked with the foreground reason, which names the
\* first such pattern of the list, whatever the sudo gate or the write gate
\* would say of the command.
C17_ForegroundFirst ==
    (ret # NoValue /\ C17_Found(args[1].cmd) # {})
        => /\ MatchAt(ret[1], 0, "BLOCKED: Foreground/interactive process detected (")
           /\ Contains(ret[1], "(" \o FOREGROUND_PATTERNS[Min(C17_Found(args[1].cmd))].re \o ")")

\* a command the sudo gate would reject is blocked for its foreground pattern
C17_Witness ==
    /\ ret # NoValue
    /\ args[1].cmd = "sudo vim /etc/hosts"
    /\ SudoGate(args[1].cmd, args[1].workspace) # None
    /\ Contains(ret[1], "(\\bvim\\b)")

\* C18: a command in which no foreground pattern is found, that does not begin
\* with sudo, and whose write targets all resolve inside the workspace or are
\* /dev/null, NUL or nul, is not blocked; nor are `echo hi`,
\* `python script.py`, `cat file`, `ls` and `echo x > /dev/null`.
C18_HarmlessPasses ==
    ret # NoValue =>
        /\ (/\ C17_Found(args[1].cmd) = {}
            /\ ~MatchAt(Strip(args[1].cmd), 0, "sudo")
            /\ C15_OutsideTargets(Strip(args[1].cmd), args[1].workspace) = {})
               => ret[1] = None
        /\ args[1].cmd \in {"echo hi", "python script.py", "cat file", "ls",
                            "echo x > /dev/null"}
               => ret[1] = None

\* a redirect to /dev/null, which resolves outside the workspace, passes
C18_Witness ==
    /\ ret = Some(None)
    /\ args[1].cmd = "echo x > /dev/null"
    /\ WriteIndicated(args[1].cmd)
    /\ ~C15_ResolvesInside("/dev/null", args[1].workspace)

\* C19: a command that sandbox_check blocks starts no subprocess and returns
\* returncode -1, timed_out false and the block reason as stderr; a subprocess
\* that runs out of time returns returncode -1 and timed_out true; and every
\* result with timed_out true has returncode -1.
C19_BlockedNeverRuns ==
    ret # NoValue =>
        LET block_reason == sandbox_check(args[1].cmd, args[1].workspace)
            result == ret[1].result
        IN  /\ block_reason # None =>
                   /\ ~ret[1].spawned
                   /\ result = [stdout |-> "", stderr |-> block_reason,
                                returncode |-> -1, timed_out |-> FALSE]
            /\ (block_reason = None /\ args[1].outcome.kind = "timeout") =>
                   /\ ret[1].spawned
                   /\ result.returncode = -1
                   /\ result.timed_out
            /\ result.timed_out => result.returncode = -1
            /\ result.timed_out => args[1].outcome.kind = "timeout"

\* a blocked command whose subprocess would have run out of time
C19_Witness ==
    /\ ret # NoValue
    /\ args[1].cmd = "rm -rf /"
    /\ args[1].outcome.kind = "timeout"
    /\ ~ret[1].spawned
    /\ ret[1].result.returncode = -1
    /\ ~ret[1].result.timed_out

\* C20 as stated: parsing the rendering of a list of {path, content} pairs,
\* none of whose contents holds the terminator line, returns the same paths
\* and contents in the same order.
C20_RoundTrip == ret # NoValue => ret[1] = args[1].blocks

\* C21: call_model makes at most 4 attempts per call; a connection or timeout
\* fault on attempt k (k = 1, 2, 3) is followed by a wait of 2, 8, 32 seconds
\* and a retry; a fourth transport fault, or any other failure on any attempt,
\* is fatal to the run and no attempt follows; the first successful attempt
\* returns its text and no attempt follows.
C21_Attempt ==
    LET c == ret[1]
        d == ret'[1]
        transport == d.raised \in {"ConnectionError", "Timeout"}
    IN  /\ c.status = "running"
        /\ exit_code = -1
        /\ d.attempt = c.attempt + 1
        /\ d.attempt <= 4
        /\ IF d.raised = None
           THEN /\ d.status = "returned"
                /\ \E o \in PostOutcomes : o.kind = "ok" /\ d.content = o.content
                /\ d.slept = c.slept
                /\ exit_code' = -1
           ELSE IF transport /\ d.attempt <= 3
           THEN /\ d.status = "running"
                /\ d.slept = Append(c.slept, <<2, 8, 32>>[d.attempt])
                /\ exit_code' = -1
           ELSE /\ d.status = "fatal"
                /\ d.slept = c.slept
                /\ exit_code' = 1

C21_RetrySchedule == [][C21_Attempt]_vars

\* the fourth request raised a timeout after waits of 2, 8 and 32 seconds
C21_Witness ==
    /\ pc = "FATAL_MODEL_CALL"
    /\ ret[1].attempt = 4
    /\ ret[1].raised = "Timeout"
    /\ ret[1].slept = <<2, 8, 32>>

\* C22 as stated: for every assignment of model identifiers to the roles, the
\* output of a consultant-role call is handed to its parser with the
\* <think>...</think> blocks stripped, and the output of a planner-role or
\* implementer-role call is handed on verbatim.
C22_StrippedIffConsultantRole ==
    ret # NoValue =>
        LET a == args[1]
        IN  ret[1] = IF CallRole(a.phase, a.effective) = "consultant"
                     THEN strip_think_blocks(a.output)
                     ELSE a.output

\* C23 as stated: the implement prompt of an iteration contains the stuck hint
\* if and only if max(stuck_count, failing_set_count), as carried into that
\* iteration, is at least 3.
C23_HintIffEffectiveStuck ==
    pc = "run_commands" =>
        (prompt.stuck_hint # "" <=>
             EffectiveStuck(stuck_count, failing_set_count) >= 3)

\* the texts handed to assemble_implement_context, next to the plan and the
\* files of the workspace
C24_PromptTexts(p) == {p.task, p.diagnosis, p.test_output, p.stuck_hint, p.review_code}

\* the dict execute_command returned for a command that the sandbox blocked
C24_Blocked(cmd) ==
    LET r == execute_command(cmd, "/ws", CHOOSE o \in SubprocessOutcomes : TRUE)
    IN  IF r.spawned THEN NoValue ELSE Some(r.result)

\* C24 as stated: when a command was blocked by the sandbox in an iteration
\* and the run continues, the block reason (the stderr of the blocked
\* command's result) is part of the implementer prompt of the next iteration.
C24_BlockReasonInNextPrompt ==
    [][(pc = "implement" /\ pc' = "run_commands" /\ iteration >= 1) =>
           \A i \in 1..Len(cmd_blocks) :
               C24_Blocked(cmd_blocks[i]) # NoValue =>
                   \E text \in C24_PromptTexts(prompt') :
                       Contains(text, C24_Blocked(cmd_blocks[i])[1].stderr)]_vars

\* C25 as stated: in every controller state after a failing test run has been
\* processed, stuck_count >= 1, the states that follow an accepted DK
\* amendment included.
C25_AlwaysCounted ==
    (test_result.output # "" /\ ~test_result.passed) => stuck_count >= 1

\* C25, amended: stuck_count is at least 1 from the processing of a failing
\* test run until the next accepted DK amendment, which sets it to 0; it is 0
\* exactly while no failing run has been processed since the start or since
\* the last accepted amendment, and no other step changes it.
C25_CountedSinceLastReset ==
    [][/\ (pc = "test" /\ ~test_result'.passed) => stuck_count' >= 1
       /\ (pc = "dk_ping" /\ pc' = "replan") => stuck_count' = 0
       /\ stuck_count' # stuck_count =>
              \/ pc = "test" /\ ~test_result'.passed
              \/ pc = "dk_ping" /\ pc' = "replan"
       /\ (stuck_count' = 0) = (last_test_hash' = NoValue)]_vars

\* an accepted amendment after five stalled iterations has reset the count
C25_Witness ==
    /\ pc = "replan"
    /\ stuck_count = 0
    /\ iteration >= 5
    /\ ~test_result.passed
    /\ test_result.output # ""

\* whether the estimate of system text plus user text exceeds the budget
C26_Exceeds ==
    estimate_tokens(AssembledPrompt(args[1].input)[1] \o AssembledPrompt(args[1].input)[2])
        > args[1].max_context_tokens

\* C26: for each of the four assemblers, when the estimated token count of
\* system plus user text exceeds the budget in force, the user text returned
\* is a proper prefix of the assembled user text followed by a blank line and
\* the marker [...truncated to fit context window...]; otherwise it is the
\* assembled user text; the system text is returned as assembled either way.
C26_TruncatesUserTextOnly ==
    ret # NoValue =>
        LET system_prompt == AssembledPrompt(args[1].input)[1]
            user_prompt == AssembledPrompt(args[1].input)[2]
            kept == Len(ret[1][2]) - Len("\n\n[...truncated to fit context window...]")
        IN  /\ ret[1][1] = system_prompt
            /\ IF C26_Exceeds
               THEN /\ 0 <= kept
                    /\ kept < Len(user_prompt)
                    /\ ret[1][2] = Upto(user_prompt, kept)
                                       \o "\n\n[...truncated to fit context window...]"
               ELSE ret[1][2] = user_prompt

\* the review prompt was cut although the budget is below the reserve
C26_Witness ==
    /\ ret # NoValue
    /\ args[1].input.assembler = "review"
    /\ args[1].max_context_tokens = 400
    /\ C26_Exceeds
    /\ Len(ret[1][2]) > Len("\n\n[...truncated to fit context window...]")

\* C27: count_test_functions is monotone under append: for every text,
\* appending a line `def test_x():` yields a count that is not smaller than
\* the count of the text.
C27_MonotoneUnderAppend == ret # NoValue => ret[1].after >= ret[1].before

\* a text with one test whose last line is cut off; the appended header joins
\* that line and the count stays 1
C27_Witness ==
    /\ ret # NoValue
    /\ args[1].content = "def test_a():\ndef tes"
    /\ args[1].line = "def test_x():\n"
    /\ ret[1].before = 1
    /\ ret[1].after = 1

C29_PlanUsable ==
    /\ plan # <<>>
    /\ \A i \in 1..Len(plan) : DictHas(plan[i], "file")

\* C29: at every point of the iteration loop the working plan has at least
\* one entry and every entry carries a `file` key; the test content that
\* Phase 2 writes is not empty; a review reply or a re-plan whose normalised
\* plan is empty leaves the previous plan in place.
C29_PlanNeverEmptied ==
    /\ [](pc \in {"implement", "run_commands", "test", "dk_ping", "replan", "audit", "review"}
              => C29_PlanUsable)
    /\ [][/\ (pc = "plan" /\ pc' = "implement") =>
                 test_content' # "" /\ test_content' = plan_reply'.data.tests.content
          /\ (pc = "review" /\ review_reply'[1].parse_ok
                /\ "plan" \in DOMAIN review_reply'[1].data
                /\ normalize_plan(review_reply'[1].data.plan, DictItem(plan[1], "file")[3]) = <<>>)
                 => plan' = plan
          /\ (pc = "replan" /\ plan_reply'.parse_ok /\ "plan" \in DOMAIN plan_reply'.data
                /\ normalize_plan(plan_reply'.data.plan, "") = <<>>)
                 => plan' = plan]_vars

\* a re-plan whose entries name no file and then a review whose only entry is
\* a remark have been received, and the loop goes on with the plan it had
C29_Witness ==
    /\ pc = "implement"
    /\ iteration >= 5
    /\ plan_reply.parse_ok
    /\ "plan" \in DOMAIN plan_reply.data
    /\ plan_reply.data.plan = NoFilePlan
    /\ review_reply = Some(Parsed([plan |-> <<StrEntry("rewrite the clamp")>>]))
    /\ C29_PlanUsable

C31_Blocked == sandbox_check(TestCommand(args[1].test_filename), args[1].workspace) # None

C31_PassedIffExistsAndZero ==
    ret # NoValue =>
        LET a == args[1]
            r == ret[1]
            e == execute_command(TestCommand(a.test_filename), a.workspace, a.outcome)
        IN  /\ r.passed <=> (a.exists /\ e.result.returncode = 0)
            /\ ~a.exists => ~r.executed /\ ~r.spawned
            /\ a.exists /\ C31_Blocked => ~r.passed /\ ~r.spawned
            /\ a.exists /\ ~C31_Blocked /\ a.outcome.kind = "timeout" => ~r.passed

\* a blocked test command was refused although the subprocess would have
\* returned 0
C31_Witness ==
    /\ ret # NoValue
    /\ args[1].exists
    /\ C31_Blocked
    /\ args[1].outcome.kind = "completed" /\ args[1].outcome.returncode = 0
    /\ ~ret[1].passed

\* C32: a command block that the sandbox blocks, that times out or that
\* returns a non-zero returncode neither ends the run nor skips a step: the
\* loop hands every command block of the output to execute_command, in source
\* order, and the test phase runs next, in the same iteration.
C32_CommandsStep ==
    /\ pc = "run_commands" =>
          /\ pc' = "test"
          /\ iteration' = iteration
          /\ Len(trace') = Len(trace) + Len(cmd_blocks)
          /\ SubSeq(trace', 1, Len(trace)) = trace
          /\ \A i \in 1..Len(cmd_blocks) :
                 /\ trace'[Len(trace) + i].op = "execute_command"
                 /\ trace'[Len(trace) + i].cmd = cmd_blocks[i]
    /\ pc = "test" =>
          /\ iteration' = iteration
          /\ trace' = Append(trace, Op("test", "run_tests", "", ""))

C32_FailedCommandNeverStops == [][C32_CommandsStep]_vars

\* the first command was blocked, the second ran, and the tests were run
C32_Witness ==
    /\ pc = "audit"
    /\ Len(cmd_blocks) = 2
    /\ Len(trace) = 5
    /\ trace[3].op = "execute_command" /\ trace[3].cmd = "npm start" /\ trace[3].returncode = -1
    /\ trace[4].op = "execute_command" /\ trace[4].cmd = "pip install pytest"
    /\ trace[4].returncode \in {0, 1}
    /\ trace[5].op = "run_tests"

\* C33: for every input text parse_json_output either returns a JSON object
\* or raises the parse fault carrying the first 500 characters of the input;
\* it never returns a JSON value that is not an object.
C33_ObjectOrFault ==
    ret # NoValue =>
        \/ ~ret[1].raised /\ ret[1].kind = "object"
        \/ /\ ret[1].raised
           /\ ret[1].message = "Could not parse JSON from model output:\n"
                                   \o Truncate(args[1].text, 500)

\* C34 as stated: for every sequence of per-attempt outcomes the model client
\* of isomoira.py and that of isomira.py make the same number of attempts,
\* wait the same delays and end the same way (the text returned, or fatal).
C34_ClientsAgree ==
    ret # NoValue =>
        /\ ret[1].isomoira.attempt = ret[1].isomira.attempt
        /\ ret[1].isomoira.slept = ret[1].isomira.slept
        /\ ret[1].isomoira.status = ret[1].isomira.status
        /\ ret[1].isomoira.content = ret[1].isomira.content

\* C35: in every reachable controller state stuck_count <= 5 and
\* failing_set_count <= 5, and the audit and the review are only entered with
\* an effective stuck score between 1 and 4: a test phase that brings the
\* score to 5 goes to the DK ping, which either halts or resets both
\* counters to 0.
C35_Bounded ==
    /\ stuck_count <= 5
    /\ failing_set_count <= 5
    /\ pc \in {"audit", "review"} =>
          /\ effective_stuck \in 1..4
          /\ effective_stuck = Max({stuck_count, failing_set_count})

C35_PingStep ==
    /\ (pc = "test" /\ Max({stuck_count', failing_set_count'}) >= 5) => pc' = "dk_ping"
    /\ pc = "dk_ping" =>
          \/ pc' \in HaltStates
          \/ stuck_count' = 0 /\ failing_set_count' = 0

C35_CountersNeverPassFive == []C35_Bounded /\ [][C35_PingStep]_vars

\* the failing set stayed the same for five runs while the P/F pattern changed
C35_Witness ==
    /\ pc = "dk_ping"
    /\ failing_set_count = 5
    /\ stuck_count < 5

\* the list normalize_plan returned, as a raw plan of dict entries
C36_AsRaw(normalized) == [i \in 1..Len(normalized) |-> DictEntry(normalized[i])]

\* C36 as stated: normalize_plan is idempotent: normalising its own result
\* with the same fallback file changes nothing; in particular no file path
\* of the result starts with one of the prefixes workspace/, workspace\, ./
\* and .\.
C36_Idempotent ==
    ret # NoValue =>
        /\ normalize_plan(C36_AsRaw(ret[1]), args[1].fallback_file) = ret[1]
        /\ \A i \in 1..Len(ret[1]) : \A k \in 1..Len(FilePrefixes) :
               ~MatchAt(DictItem(ret[1][i], "file")[3], 0, FilePrefixes[k])

\* C37 as stated: every file the controller writes from model output (the
\* file blocks, and the test file of the plan, the re-plan and the audit)
\* is inside the workspace directory, for every path string the model
\* supplies, absolute paths and paths with ".." included.
C37_WritesStayInside ==
    ret # NoValue =>
        LET w == PathParts(args[1].workspace)
        IN  Len(ret[1]) > Len(w) /\ SubSeq(ret[1], 1, Len(w)) = w

\* C38 as stated: after the plan phase the test file changes only through an
\* accepted audit replacement or an accepted re-plan, never through a file
\* block of the implementer, so the file the test phase runs always holds at
\* least original_test_count test functions.
C38_Step ==
    /\ pc = "implement" => test_file' = test_file
    /\ pc' = "test" => count_test_functions(test_file') >= original_test_count'

C38_TestFileKept == [][C38_Step]_vars

\* the tag [Auto-DK iteration n]
C39_Tag(n) == "[Auto-DK iteration " \o ToString(n) \o "] "

\* C39: an accepted DK amendment, with the re-plan that follows it, leaves
\* iteration, last_diagnosis, last_review_code, last_impl_hash and
\* impl_stable_count as they were; it changes the task, resets stuck_count,
\* failing_set_count, last_test_hash and last_failing_set, and only the
\* re-plan may change the plan and the test fields.  The iteration counter
\* is never reset, so the tag of every amendment carries a greater N than
\* every tag already in the task.
C39_Frame ==
    /\ iteration' = iteration
    /\ last_diagnosis' = last_diagnosis
    /\ last_review_code' = last_review_code
    /\ last_impl_hash' = last_impl_hash
    /\ impl_stable_count' = impl_stable_count

C39_Step ==
    /\ (pc = "dk_ping" /\ pc' = "replan") =>
          /\ C39_Frame
          /\ plan' = plan
          /\ test_filename' = test_filename
          /\ test_content' = test_content
          /\ original_test_count' = original_test_count
          /\ task' # task
          /\ stuck_count' = 0 /\ failing_set_count' = 0
          /\ last_test_hash' = NoValue /\ last_failing_set' = NoValue
          /\ Contains(task', C39_Tag(iteration))
          /\ \A n \in 0..MaxIterStalled :
                 Contains(task, C39_Tag(n)) => n < iteration
    /\ pc = "replan" =>
          /\ C39_Frame
          /\ task' = task
          /\ stuck_count' = 0 /\ failing_set_count' = 0
          /\ last_test_hash' = NoValue /\ last_failing_set' = NoValue
    /\ iteration' >= iteration

C39_AmendmentFrame == [][C39_Step]_vars

\* a second amendment was accepted and re-planned, with new tests
C39_Witness ==
    /\ pc = "implement"
    /\ iteration = 10
    /\ Contains(task, C39_Tag(5))
    /\ Contains(task, C39_Tag(10))
    /\ test_filename = "test_range.py"
    /\ stuck_count = 0

\* C40: for every philosophy, task and file contents, the prompt returned by
\* an assembler fits the budget: the estimate of system text plus user text is
\* at most the context budget in force (16000, or 61440 for consultant
\* calls), including when the system text alone is estimated at more than the
\* budget less 500 tokens.
C40_FitsBudget ==
    (ret # NoValue /\ args[1].max_context_tokens \in {16000, 61440}) =>
        estimate_tokens(ret[1][1] \o ret[1][2]) <= args[1].max_context_tokens
====
